---- MODULE Spec2Model ----
(***************************************************************************)
(* Model of clippy_lints/src/dereference.rs: the `Dereferencing` late lint *)
(* pass.  The pass is driven by the HIR visitor, which calls check_expr    *)
(* for an expression before its operands, check_pat for every pattern and  *)
(* check_body_post when the traversal of a body ends.                      *)
(*                                                                         *)
(* The typed HIR is not part of the pass.  Everything the pass queries     *)
(* from it (kind, span context, types, adjustments, parent node, usage     *)
(* position) is carried by the node record handed to an action.  A span is *)
(* identified with the HirId of its node.  The applicability of a          *)
(* suggestion is not modelled: it is passed through to the diagnostic and  *)
(* never read by the pass.                                                 *)
(***************************************************************************)
EXTENDS Integers, Sequences, FiniteSets, TLC

VARIABLES
    state,          \* Dereferencing::state : Option<(State, StateData)>
    skip_expr,      \* Dereferencing::skip_expr : Option<HirId>
    current_body,   \* Dereferencing::current_body : Option<BodyId>
    ref_locals,     \* Dereferencing::ref_locals : FxIndexMap<HirId, Option<RefPat>>
    findings,       \* the diagnostic sink, in emission order
    nodes,          \* the expressions visited so far (nodes[i].hir_id = i)
    pats,           \* the patterns visited so far
    bodies,         \* stack of the bodies being traversed (top = cx.enclosing_body)
    closed,         \* the calls of check_body_post so far: the body that has
                    \* completed and the tracker fields the call found
    in_pat          \* the bindings of the pattern being traversed

vars == <<state, skip_expr, current_body, ref_locals, findings, nodes, pats,
          bodies, closed, in_pat>>

(***************************************************************************)
(* Bounds of the model.                                                    *)
(***************************************************************************)
MaxNodes == 4
MaxPats == 3
MaxBodies == 2
MaxRefs == 2
MaxBindings == 2
MaxTops == 1
MaxUses == 3

(***************************************************************************)
(* Program constants.                                                      *)
(***************************************************************************)
PREC_POSTFIX == 60
PREC_PREFIX == 50
PREC_PAREN == 99
PREC_JUMP == -30

None == "None"

\* Option<T> of an identifier: the empty sequence, or the sequence of the one value
NoId == <<>>
Some(x) == <<x>>

EXPLICIT_DEREF_METHODS == "EXPLICIT_DEREF_METHODS"
NEEDLESS_BORROW == "NEEDLESS_BORROW"
REF_BINDING_TO_REFERENCE == "REF_BINDING_TO_REFERENCE"
EXPLICIT_AUTO_DEREF == "EXPLICIT_AUTO_DEREF"

deref_msg == "this expression creates a reference which is immediately dereferenced by the compiler"
borrow_msg == "this expression borrows a value the compiler would automatically borrow"

(***************************************************************************)
(* Types.  A type is a stack of reference layers (outermost first, each    *)
(* with its mutability) over a base type.                                  *)
(***************************************************************************)
Mutability == {"Not", "Mut"}
Ty(refs, base) == [refs |-> refs, base |-> base]
NoTy == Ty(<<>>, "NoTy")

is_ref(ty) == Len(ty.refs) > 0
is_unsafe_ptr(ty) == Len(ty.refs) = 0 /\ ty.base = "RawPtr"
\* clippy_utils::ty::peel_mid_ty_refs(ty).1
peel_mid_ty_refs_count(ty) == Len(ty.refs)
Pointee(ty) == Ty(Tail(ty.refs), ty.base)
RefTo(m, ty) == Ty(<<m>> \o ty.refs, ty.base)

(***************************************************************************)
(* enum State + StateData, held together as Dereferencing::state.          *)
(***************************************************************************)
NoState == [kind |-> None]

DerefMethod(ty_changed_count, is_final_ufcs, target_mut, span, hir_id) ==
    [kind |-> "DerefMethod", ty_changed_count |-> ty_changed_count,
     is_final_ufcs |-> is_final_ufcs, target_mut |-> target_mut,
     span |-> span, hir_id |-> hir_id]

DerefedBorrow(count, required_precedence, msg, span, hir_id) ==
    [kind |-> "DerefedBorrow", count |-> count,
     required_precedence |-> required_precedence, msg |-> msg,
     span |-> span, hir_id |-> hir_id]

ExplicitDeref(deref_span, deref_hir_id, span, hir_id) ==
    [kind |-> "ExplicitDeref", deref_span |-> deref_span,
     deref_hir_id |-> deref_hir_id, span |-> span, hir_id |-> hir_id]

Reborrow(deref_span, deref_hir_id, span, hir_id) ==
    [kind |-> "Reborrow", deref_span |-> deref_span,
     deref_hir_id |-> deref_hir_id, span |-> span, hir_id |-> hir_id]

Borrow(span, hir_id) == [kind |-> "Borrow", span |-> span, hir_id |-> hir_id]

(***************************************************************************)
(* Diagnostics.  A suggestion text is `addr_of` followed by `stars` deref  *)
(* operators and the snippet of node `snip`, parenthesised if `paren`.     *)
(***************************************************************************)
Text(addr_of, stars, paren, snip) ==
    [addr_of |-> addr_of, stars |-> stars, paren |-> paren, snip |-> snip]

Finding(lint, hir_id, spans, msg, edits) ==
    [lint |-> lint, hir_id |-> hir_id, spans |-> spans, msg |-> msg, edits |-> edits]

Edit(span, text) == [span |-> span, text |-> text]

ExprSpan(id) == <<"expr", id>>
PatSpan(id) == <<"pat", id>>

(***************************************************************************)
(* Records of the typed HIR handed to the pass.                            *)
(***************************************************************************)
\* rustc_middle::ty::adjustment::Adjustment: kind is "Deref", "Borrow" (an
\* AutoBorrow::Ref of mutability mutbl) or "Other"; target_is_ref is
\* adjust.target.is_ref().
Adjustment(kind, mutbl, target_is_ref) ==
    [kind |-> kind, mutbl |-> mutbl, target_is_ref |-> target_is_ref]
NoAdjust == Adjustment(None, None, FALSE)

\* The parent node of an expression (get_parent_node).  node is "Expr",
\* "Local", "Other" or None; for an expression parent, kind is its ExprKind,
\* first says that the child is its first operand (the receiver of a method
\* call, the callee of a call), src is the MatchSource of a match, same_ctxt
\* says that the spans of parent and child have the same syntax context.
Parent(node, kind, first, src, same_ctxt, expn, prec, hir_id) ==
    [node |-> node, kind |-> kind, first |-> first, src |-> src,
     same_ctxt |-> same_ctxt, expn |-> expn, prec |-> prec, hir_id |-> hir_id]
NoParent == Parent(None, None, FALSE, None, TRUE, FALSE, 0, 0)

\* One step of the walk of find_adjustments towards the enclosing nodes.
Frame(node, reaches_expr, adjs) ==
    [node |-> node, reaches_expr |-> reaches_expr, adjs |-> adjs]

\* A type as written in the source (rustc_hir::Ty): a kind and its operands.
HirTy(kind, sub) == [kind |-> kind, sub |-> sub]
NoHirTy == HirTy(None, <<>>)

\* The node at which walk_to_expr_usage stops for an expression.
Usage(node, stable_output, found, hir_ty, ty) ==
    [node |-> node, stable_output |-> stable_output, found |-> found,
     hir_ty |-> hir_ty, ty |-> ty]
NoUsage == Usage(None, FALSE, FALSE, NoHirTy, NoTy)

(***************************************************************************)
(* try_parse_ref_op: the reference operation of an expression, if any.     *)
(* e.res is the resolution of the called function: "deref" (the            *)
(* deref_method diagnostic item), "deref_mut" (an item of the DerefMut     *)
(* trait), "other", or None when the lookup fails.                         *)
(***************************************************************************)
RefOp(op, mutbl) == [op |-> op, mutbl |-> mutbl]
NoRefOp == RefOp(None, None)

try_parse_ref_op(e) ==
    CASE e.kind \in {"MethodCall", "Call"} ->
            IF e.res = "deref" THEN RefOp("Method", "Not")
            ELSE IF e.res = "deref_mut" THEN RefOp("Method", "Mut")
            ELSE NoRefOp
      [] e.kind = "UnaryDeref" /\ ~is_unsafe_ptr(e.sub_ty) -> RefOp("Deref", None)
      [] e.kind = "AddrOf" -> RefOp("AddrOf", None)
      [] OTHER -> NoRefOp

\* deref_method_same_type
deref_method_same_type(result_ty, arg_ty) ==
    IF is_ref(result_ty) /\ is_ref(arg_ty)
    THEN Pointee(result_ty) = Pointee(arg_ty)
    ELSE FALSE

\* mutant: the syntax contexts of the parent and of the call are not compared
is_linted_explicit_deref_position_any_ctxt(parent) ==
    IF parent.node # "Expr" THEN TRUE
    ELSE CASE parent.kind = "MethodCall" /\ parent.first -> FALSE
           [] parent.kind = "Call" /\ parent.first -> FALSE
           [] parent.kind = "UnaryDeref" -> FALSE
           [] parent.kind = "Match" /\ parent.src \in {"TryDesugar", "AwaitDesugar"} -> FALSE
           [] parent.kind \in {"Field", "Index", "Err"} -> FALSE
           [] OTHER -> TRUE

\* is_linted_explicit_deref_position
is_linted_explicit_deref_position(parent) ==
    IF ~(parent.node = "Expr" /\ parent.same_ctxt) THEN TRUE
    ELSE CASE parent.kind = "MethodCall" /\ parent.first -> FALSE
           [] parent.kind = "Call" /\ parent.first -> FALSE
           [] parent.kind = "UnaryDeref" -> FALSE
           [] parent.kind = "Match" /\ parent.src \in {"TryDesugar", "AwaitDesugar"} -> FALSE
           [] parent.kind \in {"Field", "Index", "Err"} -> FALSE
           [] OTHER -> TRUE

\* is_auto_reborrow_position
is_auto_reborrow_position(parent) ==
    CASE parent.node = "Expr" -> parent.kind \in {"MethodCall", "Call"}
      [] parent.node = "Local" -> TRUE
      [] OTHER -> FALSE

\* is_auto_borrow_position
is_auto_borrow_position(parent) ==
    IF parent.node = "Expr"
    THEN CASE parent.kind = "Field" -> TRUE
           [] parent.kind = "Call" -> parent.first
           [] OTHER -> FALSE
    ELSE FALSE

(***************************************************************************)
(* find_adjustments: the adjustments of the expression, or of the first    *)
(* enclosing block expression or break target that has any.                *)
(***************************************************************************)
\* mutant: the walk goes on through a block or a break that leads to no expression
RECURSIVE find_adjustments_from_through(_, _, _)
find_adjustments_from_through(prev_adjs, frames, i) ==
    IF prev_adjs # <<>> THEN prev_adjs
    ELSE IF i > Len(frames) THEN <<>>
    ELSE IF frames[i].node \in {"Block", "Break"}
         THEN find_adjustments_from_through(frames[i].adjs, frames, i + 1)
         ELSE <<>>

RECURSIVE find_adjustments_from(_, _, _)
find_adjustments_from(prev_adjs, frames, i) ==
    IF prev_adjs # <<>> THEN prev_adjs
    ELSE IF i > Len(frames) THEN <<>>
    ELSE IF frames[i].node \in {"Block", "Break"} /\ frames[i].reaches_expr
         THEN find_adjustments_from(frames[i].adjs, frames, i + 1)
         ELSE <<>>

find_adjustments(e) == find_adjustments_from(e.adjs, e.encl, 1)

\* The loop of check_expr over the adjustments: the number of leading
\* dereferences and the adjustment at which the loop breaks.
\* mutant: a dereference whose target is no reference ends the count uncounted
RECURSIVE count_derefs_of_refs(_, _, _)
count_derefs_of_refs(adjs, i, deref_count) ==
    IF i > Len(adjs) THEN [deref_count |-> deref_count, next_adjust |-> NoAdjust]
    ELSE IF adjs[i].kind # "Deref"
         THEN [deref_count |-> deref_count, next_adjust |-> adjs[i]]
    ELSE IF ~adjs[i].target_is_ref
         THEN [deref_count |-> deref_count,
               next_adjust |-> IF i + 1 <= Len(adjs) THEN adjs[i + 1] ELSE NoAdjust]
    ELSE count_derefs_of_refs(adjs, i + 1, deref_count + 1)

RECURSIVE count_derefs(_, _, _)
count_derefs(adjs, i, deref_count) ==
    IF i > Len(adjs) THEN [deref_count |-> deref_count, next_adjust |-> NoAdjust]
    ELSE IF adjs[i].kind # "Deref"
         THEN [deref_count |-> deref_count, next_adjust |-> adjs[i]]
    ELSE IF ~adjs[i].target_is_ref
         THEN [deref_count |-> deref_count + 1,
               next_adjust |-> IF i + 1 <= Len(adjs) THEN adjs[i + 1] ELSE NoAdjust]
    ELSE count_derefs(adjs, i + 1, deref_count + 1)

\* mutant: a mutable re-borrow asks for no further layer
required_refs_two(e, deref_count, next_adjust) ==
    IF is_auto_borrow_position(e.parent)
    THEN [refs |-> 1, precedence |-> PREC_POSTFIX,
          msg |-> IF deref_count = 1 THEN borrow_msg ELSE deref_msg]
    ELSE [refs |-> 2, precedence |-> 0, msg |-> deref_msg]

\* (required_refs, required_precedence, msg) of check_expr
required_refs(e, deref_count, next_adjust) ==
    IF is_auto_borrow_position(e.parent)
    THEN [refs |-> 1, precedence |-> PREC_POSTFIX,
          msg |-> IF deref_count = 1 THEN borrow_msg ELSE deref_msg]
    ELSE IF next_adjust.kind = "Borrow"
         THEN IF next_adjust.mutbl = "Mut" /\ ~is_auto_reborrow_position(e.parent)
              THEN [refs |-> 3, precedence |-> 0, msg |-> deref_msg]
              ELSE [refs |-> 2, precedence |-> 0, msg |-> deref_msg]
         ELSE [refs |-> 2, precedence |-> 0, msg |-> deref_msg]

(***************************************************************************)
(* The stability oracle.                                                   *)
(***************************************************************************)
\* clippy_utils::peel_hir_ty_refs: the type under all written reference
\* layers, and their number.
RECURSIVE peel_hir_ty_refs(_, _)
peel_hir_ty_refs(ty, count) ==
    IF ty.kind = "Rptr" THEN peel_hir_ty_refs(ty.sub[1], count + 1)
    ELSE [ty |-> ty, count |-> count]

\* ty_contains_infer.  "Path" is a path with a last segment (sub holds the
\* type arguments of that segment); "LangPath" is any other QPath.
RECURSIVE ty_contains_infer(_)
ty_contains_infer(ty) ==
    CASE ty.kind \in {"Slice", "Array", "Ptr", "Rptr"} -> ty_contains_infer(ty.sub[1])
      [] ty.kind \in {"Tup", "BareFn", "Path"} ->
            \E i \in 1..Len(ty.sub) : ty_contains_infer(ty.sub[i])
      [] ty.kind \in {"LangPath", "OpaqueDef", "Infer", "Typeof", "Err"} -> TRUE
      [] ty.kind \in {"Never", "TraitObject"} -> FALSE

\* is_binding_ty_auto_deref_stable
RECURSIVE is_binding_ty_auto_deref_stable(_)
is_binding_ty_auto_deref_stable(hir_ty) ==
    LET p == peel_hir_ty_refs(hir_ty, 0) IN
    IF p.count # 1 THEN FALSE
    ELSE CASE p.ty.kind = "Rptr" -> is_binding_ty_auto_deref_stable(p.ty.sub[1])
           [] p.ty.kind = "Path" ->
                \A i \in 1..Len(p.ty.sub) : ~ty_contains_infer(p.ty.sub[i])
           [] p.ty.kind \in {"Slice", "Array", "BareFn", "Never", "Tup", "Ptr",
                             "TraitObject", "LangPath"} -> TRUE
           [] p.ty.kind \in {"OpaqueDef", "Infer", "Typeof", "Err"} -> FALSE

\* mutant: the number of reference layers of the type is not looked at
is_param_auto_deref_stable_any_depth(ty) ==
    CASE ty.base \in {"Bool", "Char", "Int", "Uint", "Float", "Foreign", "Str",
                      "Array", "Slice", "RawPtr", "FnDef", "FnPtr", "Closure",
                      "Generator", "GeneratorWitness", "Never", "Tuple",
                      "Projection"} -> TRUE
      [] ty.base \in {"Infer", "Error", "Param", "Bound", "Opaque",
                      "Placeholder", "Dynamic"} -> FALSE
      [] ty.base = "Adt" -> TRUE
      [] ty.base = "AdtParam" -> FALSE

\* is_param_auto_deref_stable.  The base of the type is its TyKind; an Adt
\* with placeholders or type parameters has base "AdtParam".
is_param_auto_deref_stable(ty) ==
    IF peel_mid_ty_refs_count(ty) # 1 THEN FALSE
    ELSE CASE ty.base \in {"Bool", "Char", "Int", "Uint", "Float", "Foreign", "Str",
                           "Array", "Slice", "RawPtr", "FnDef", "FnPtr", "Closure",
                           "Generator", "GeneratorWitness", "Never", "Tuple",
                           "Projection"} -> TRUE
           [] ty.base \in {"Infer", "Error", "Param", "Bound", "Opaque",
                           "Placeholder", "Dynamic"} -> FALSE
           [] ty.base = "Adt" -> TRUE
           [] ty.base = "AdtParam" -> FALSE

\* is_stable_auto_deref_position, on the node walk_to_expr_usage stops at.
is_stable_auto_deref_position(e) ==
    LET u == e.usage IN
    CASE u.node = "Local" -> is_binding_ty_auto_deref_stable(u.hir_ty)
      [] u.node = "ConstItem" -> TRUE
      [] u.node \in {"FnItem", "Ret"} -> u.stable_output
      [] u.node = "Call" ->
            IF ~u.found THEN FALSE
            ELSE IF u.hir_ty # NoHirTy THEN is_binding_ty_auto_deref_stable(u.hir_ty)
            ELSE is_param_auto_deref_stable(u.ty)
      [] u.node \in {"MethodCall", "Struct"} ->
            IF u.found THEN is_param_auto_deref_stable(u.ty) ELSE FALSE
      [] OTHER -> FALSE

(***************************************************************************)
(* report: the findings (none or one) of a finalized chain state.  expr is *)
(* the expression that broke the chain.                                    *)
(***************************************************************************)
\* The arm State::DerefMethod.  The two messages are those of lines 948-949
\* with the name of the method unquoted: the source writes the name between
\* grave accents, a character that a TLA+ string cannot hold.
report_DerefMethod(expr, st) ==
    LET ty == expr.ty
        ref_count == peel_mid_ty_refs_count(ty)
        stars == IF st.ty_changed_count >= ref_count /\ ref_count # 0
                 THEN st.ty_changed_count + 1
                 ELSE st.ty_changed_count
        addr_of_str ==
            IF st.ty_changed_count < ref_count
            THEN IF st.target_mut = "Not" /\ is_ref(ty) /\ ty.refs[1] = "Mut"
                 THEN "&*" ELSE ""
            ELSE IF st.target_mut = "Mut" THEN "&mut " ELSE "&"
        paren == ~expr.expn /\ st.is_final_ufcs /\ expr.prec < PREC_PREFIX
    IN  <<Finding(EXPLICIT_DEREF_METHODS, NoId, <<ExprSpan(st.span)>>,
                  IF st.target_mut = "Not" THEN "explicit deref method call"
                  ELSE "explicit deref_mut method call",
                  <<Edit(ExprSpan(st.span),
                         Text(addr_of_str, stars, paren, ExprSpan(expr.hir_id)))>>)>>

\* mutant: the suggestion keeps the text of the borrow itself
report_DerefedBorrow_kept(expr, st) ==
    <<Finding(NEEDLESS_BORROW, Some(st.hir_id), <<ExprSpan(st.span)>>, st.msg,
              <<Edit(ExprSpan(st.span), Text("", 0, FALSE, ExprSpan(st.hir_id)))>>)>>

report_DerefedBorrow(expr, st) ==
    LET paren == st.required_precedence > expr.prec /\ ~expr.paren
    IN  <<Finding(NEEDLESS_BORROW, Some(st.hir_id), <<ExprSpan(st.span)>>, st.msg,
                  <<Edit(ExprSpan(st.span),
                         Text("", 0, paren, ExprSpan(expr.hir_id)))>>)>>

\* mutant: the whole chain is replaced whatever the type of the operand is
report_ExplicitDeref_whole(expr, st) ==
    <<Finding(EXPLICIT_AUTO_DEREF, Some(st.hir_id), <<ExprSpan(st.span)>>,
              "deref which would be done by auto-deref",
              <<Edit(ExprSpan(st.span), Text("", 0, FALSE, ExprSpan(expr.hir_id)))>>)>>

report_ExplicitDeref(expr, st) ==
    LET span == IF is_ref(expr.ty) THEN st.span ELSE st.deref_span
        hir_id == IF is_ref(expr.ty) THEN st.hir_id ELSE st.deref_hir_id
    IN  <<Finding(EXPLICIT_AUTO_DEREF, Some(hir_id), <<ExprSpan(span)>>,
                  "deref which would be done by auto-deref",
                  <<Edit(ExprSpan(span), Text("", 0, FALSE, ExprSpan(expr.hir_id)))>>)>>

\* mutant: a re-borrow that is finalized is reported like an explicit dereference
report_Reborrow(expr, st) ==
    CASE st.kind = "DerefMethod" -> report_DerefMethod(expr, st)
      [] st.kind = "DerefedBorrow" -> report_DerefedBorrow(expr, st)
      [] st.kind \in {"ExplicitDeref", "Reborrow"} -> report_ExplicitDeref(expr, st)
      [] st.kind = "Borrow" -> <<>>

report(expr, st) ==
    CASE st.kind = "DerefMethod" -> report_DerefMethod(expr, st)
      [] st.kind = "DerefedBorrow" -> report_DerefedBorrow(expr, st)
      [] st.kind = "ExplicitDeref" -> report_ExplicitDeref(expr, st)
      [] st.kind \in {"Borrow", "Reborrow"} -> <<>>

\* mutant: the open state is read for the report but is not taken
take_and_report_kept(st, expr) ==
    [state |-> st, out |-> IF st.kind # None THEN report(expr, st) ELSE <<>>]

\* if let Some((state, data)) = self.state.take() then report(cx, expr, state, data)
take_and_report(st, expr) ==
    [state |-> NoState, out |-> IF st.kind # None THEN report(expr, st) ELSE <<>>]

(***************************************************************************)
(* check_expr.  An expression handed to the pass.                          *)
(***************************************************************************)
Expr(hir_id, kind, res, local, expn, ty, sub_ty, parent, adjs, encl, usage, allowed, prec, paren) ==
    [hir_id |-> hir_id, kind |-> kind, res |-> res, local |-> local, expn |-> expn,
     ty |-> ty, sub_ty |-> sub_ty, parent |-> parent, adjs |-> adjs, encl |-> encl,
     usage |-> usage, allowed |-> allowed, prec |-> prec, paren |-> paren]

\* mutant: the first call is counted as changing the type whatever its types are
open_DerefMethod_changed(e, op) ==
    DerefMethod(1, e.kind = "Call", op.mutbl, e.hir_id, e.hir_id)

\* The arm (None, kind) of check_expr: the state a reference operation opens.
open_DerefMethod(e, op) ==
    DerefMethod(IF deref_method_same_type(e.ty, e.sub_ty) THEN 0 ELSE 1,
                e.kind = "Call", op.mutbl, e.hir_id, e.hir_id)

\* mutant: a borrow is tracked without asking whether the position is stable
open_AddrOf_anywhere(e) ==
    LET c == count_derefs(find_adjustments(e), 1, 0)
        r == required_refs(e, c.deref_count, c.next_adjust)
    IN  IF c.deref_count >= r.refs
        THEN DerefedBorrow(c.deref_count - r.refs, r.precedence, r.msg,
                           e.hir_id, e.hir_id)
        ELSE Borrow(e.hir_id, e.hir_id)

\* mutant: the stability of the position is asked first
open_AddrOf_stable_first(e) ==
    LET c == count_derefs(find_adjustments(e), 1, 0)
        r == required_refs(e, c.deref_count, c.next_adjust)
    IN  IF is_stable_auto_deref_position(e)
        THEN Borrow(e.hir_id, e.hir_id)
        ELSE IF c.deref_count >= r.refs
             THEN DerefedBorrow(c.deref_count - r.refs, r.precedence, r.msg,
                                e.hir_id, e.hir_id)
             ELSE NoState

\* mutant: the layer of the borrow itself is counted as one to spare
open_AddrOf_spare(e) ==
    LET c == count_derefs(find_adjustments(e), 1, 0)
        r == required_refs(e, c.deref_count, c.next_adjust)
    IN  IF c.deref_count >= r.refs
        THEN DerefedBorrow(c.deref_count - r.refs + 1, r.precedence, r.msg,
                           e.hir_id, e.hir_id)
        ELSE IF is_stable_auto_deref_position(e)
             THEN Borrow(e.hir_id, e.hir_id)
             ELSE NoState

\* mutant: a borrow one implicit dereference short of the required layers is tracked
open_AddrOf_short(e) ==
    LET c == count_derefs(find_adjustments(e), 1, 0)
        r == required_refs(e, c.deref_count, c.next_adjust)
    IN  IF c.deref_count + 1 >= r.refs
        THEN DerefedBorrow(c.deref_count - r.refs, r.precedence, r.msg,
                           e.hir_id, e.hir_id)
        ELSE IF is_stable_auto_deref_position(e)
             THEN Borrow(e.hir_id, e.hir_id)
             ELSE NoState

open_AddrOf(e) ==
    LET c == count_derefs(find_adjustments(e), 1, 0)
        r == required_refs(e, c.deref_count, c.next_adjust)
    IN  IF c.deref_count >= r.refs
        THEN DerefedBorrow(c.deref_count - r.refs, r.precedence, r.msg,
                           e.hir_id, e.hir_id)
        ELSE IF is_stable_auto_deref_position(e)
             THEN Borrow(e.hir_id, e.hir_id)
             ELSE NoState

open_chain(e, op) ==
    CASE op.op = "Method" /\ ~e.allowed /\ is_linted_explicit_deref_position(e.parent) ->
            open_DerefMethod(e, op)
      [] op.op = "AddrOf" -> open_AddrOf(e)
      [] OTHER -> NoState

\* mutant: every further call is counted as changing the type
extend_DerefMethod_counted(st, e) ==
    DerefMethod(st.ty_changed_count + 1, e.kind = "Call", st.target_mut, st.span,
                st.hir_id)

\* mutant: the required mutability follows the innermost call
extend_DerefMethod_retargeted(st, e) ==
    DerefMethod(IF deref_method_same_type(e.ty, e.sub_ty)
                THEN st.ty_changed_count ELSE st.ty_changed_count + 1,
                e.kind = "Call", try_parse_ref_op(e).mutbl, st.span, st.hir_id)

\* The arm (DerefMethod, Method(_)).
extend_DerefMethod(st, e) ==
    DerefMethod(IF deref_method_same_type(e.ty, e.sub_ty)
                THEN st.ty_changed_count ELSE st.ty_changed_count + 1,
                e.kind = "Call", st.target_mut, st.span, st.hir_id)

\* mutant: the nested borrow is absorbed without being counted
extend_DerefedBorrow_uncounted(st, e) ==
    DerefedBorrow(st.count, st.required_precedence, st.msg, st.span, st.hir_id)

\* mutant: the nested borrow that is absorbed becomes the anchor of the chain
extend_DerefedBorrow_reanchored(st, e) ==
    DerefedBorrow(st.count - 1, st.required_precedence, st.msg, e.hir_id, e.hir_id)

\* The arm (DerefedBorrow, AddrOf) if count != 0.
extend_DerefedBorrow(st, e) ==
    DerefedBorrow(st.count - 1, st.required_precedence, st.msg, st.span, st.hir_id)

\* The arm (Borrow, Deref).
extend_Borrow(st, e) ==
    IF is_ref(e.sub_ty)
    THEN Reborrow(e.hir_id, e.hir_id, st.span, st.hir_id)
    ELSE ExplicitDeref(e.hir_id, e.hir_id, st.span, st.hir_id)

\* mutant: the dereference recorded is the one visited last
extend_Reborrow_latest(st, e) ==
    ExplicitDeref(e.hir_id, e.hir_id, st.span, st.hir_id)

\* The arm (Reborrow, Deref).
extend_Reborrow(st, e) ==
    ExplicitDeref(st.deref_span, st.deref_hir_id, st.span, st.hir_id)

\* mutant: a macro-generated expression is classified like a written one
check_expr_chain_in_macro(st, e) ==
    LET op == try_parse_ref_op(e) IN
    IF op = NoRefOp THEN take_and_report(st, e)
    ELSE CASE st.kind = None ->
               [state |-> open_chain(e, op), out |-> <<>>]
           [] st.kind = "DerefMethod" /\ op.op = "Method" ->
               [state |-> extend_DerefMethod(st, e), out |-> <<>>]
           [] st.kind = "DerefedBorrow" /\ op.op = "AddrOf" /\ st.count # 0 ->
               [state |-> extend_DerefedBorrow(st, e), out |-> <<>>]
           [] st.kind = "Borrow" /\ op.op = "Deref" ->
               [state |-> extend_Borrow(st, e), out |-> <<>>]
           [] st.kind = "Reborrow" /\ op.op = "Deref" ->
               [state |-> extend_Reborrow(st, e), out |-> <<>>]
           [] st.kind = "ExplicitDeref" /\ op.op = "Deref" ->
               [state |-> st, out |-> <<>>]
           [] OTHER ->
               [state |-> NoState, out |-> report(e, st)]

\* mutant: a nested borrow is absorbed whatever the count is
check_expr_chain_unguarded(st, e) ==
    IF e.expn THEN take_and_report(st, e)
    ELSE LET op == try_parse_ref_op(e) IN
         IF op = NoRefOp THEN take_and_report(st, e)
         ELSE CASE st.kind = None ->
                    [state |-> open_chain(e, op), out |-> <<>>]
                [] st.kind = "DerefMethod" /\ op.op = "Method" ->
                    [state |-> extend_DerefMethod(st, e), out |-> <<>>]
                [] st.kind = "DerefedBorrow" /\ op.op = "AddrOf" ->
                    [state |-> extend_DerefedBorrow(st, e), out |-> <<>>]
                [] st.kind = "Borrow" /\ op.op = "Deref" ->
                    [state |-> extend_Borrow(st, e), out |-> <<>>]
                [] st.kind = "Reborrow" /\ op.op = "Deref" ->
                    [state |-> extend_Reborrow(st, e), out |-> <<>>]
                [] st.kind = "ExplicitDeref" /\ op.op = "Deref" ->
                    [state |-> st, out |-> <<>>]
                [] OTHER ->
                    [state |-> NoState, out |-> report(e, st)]

\* The chain part of check_expr: the new state and the findings emitted.
check_expr_chain(st, e) ==
    IF e.expn THEN take_and_report(st, e)
    ELSE LET op == try_parse_ref_op(e) IN
         IF op = NoRefOp THEN take_and_report(st, e)
         ELSE CASE st.kind = None ->
                    [state |-> open_chain(e, op), out |-> <<>>]
                [] st.kind = "DerefMethod" /\ op.op = "Method" ->
                    [state |-> extend_DerefMethod(st, e), out |-> <<>>]
                [] st.kind = "DerefedBorrow" /\ op.op = "AddrOf" /\ st.count # 0 ->
                    [state |-> extend_DerefedBorrow(st, e), out |-> <<>>]
                [] st.kind = "Borrow" /\ op.op = "Deref" ->
                    [state |-> extend_Borrow(st, e), out |-> <<>>]
                [] st.kind = "Reborrow" /\ op.op = "Deref" ->
                    [state |-> extend_Reborrow(st, e), out |-> <<>>]
                [] st.kind = "ExplicitDeref" /\ op.op = "Deref" ->
                    [state |-> st, out |-> <<>>]
                [] OTHER ->
                    [state |-> NoState, out |-> report(e, st)]

(***************************************************************************)
(* The table of ref bindings: a sequence of entries in insertion order.    *)
(***************************************************************************)
RefPat(always_deref, spans, replacements, hir_id) ==
    [some |-> TRUE, always_deref |-> always_deref, spans |-> spans,
     replacements |-> replacements, hir_id |-> hir_id]
Tombstone == [some |-> FALSE]
Entry(id, pat) == [id |-> id, pat |-> pat]

\* FxIndexMap::get_index_of, 0 when the key is absent
IndexIn(locals, id) ==
    IF \E i \in 1..Len(locals) : locals[i].id = id
    THEN CHOOSE i \in 1..Len(locals) : locals[i].id = id
    ELSE 0

\* mutant: the new value is stored in every entry of the table
SetPat_all(locals, i, pat) == [j \in 1..Len(locals) |-> Entry(locals[j].id, pat)]

SetPat(locals, i, pat) == [locals EXCEPT ![i] = Entry(locals[i].id, pat)]

\* pat.replacements.push(..)
push_replacement(pat, edit) ==
    [pat EXCEPT !.replacements = Append(pat.replacements, edit)]

\* mutant: one implicit dereference is taken for two
begins_with_a_deref(adjs) ==
    Len(adjs) >= 1 /\ adjs[1].kind = "Deref"

\* the adjustments begin with two dereferences
begins_with_two_derefs(adjs) ==
    Len(adjs) >= 2 /\ adjs[1].kind = "Deref" /\ adjs[2].kind = "Deref"

\* check_local_usage: the effect of a usage e of the binding `local`.
check_local_usage(locals, e, local) ==
    LET i == IndexIn(locals, local) IN
    IF i = 0 THEN locals
    ELSE IF ~locals[i].pat.some THEN locals
    ELSE IF begins_with_two_derefs(e.adjs) THEN locals
    ELSE LET pat == locals[i].pat
             parent == e.parent
             snip == ExprSpan(e.hir_id)
         IN CASE parent.node = "Expr" /\ parent.kind = "Field" -> locals
              [] parent.node = "Expr" /\ parent.kind = "UnaryDeref" /\ ~parent.expn ->
                    SetPat(locals, i,
                           push_replacement(pat, Edit(ExprSpan(parent.hir_id),
                                                      Text("", 0, FALSE, snip))))
              [] parent.node = "Expr" /\ ~parent.expn
                    /\ ~(parent.kind = "UnaryDeref" /\ ~parent.expn)
                    /\ parent.kind # "Field" ->
                    IF parent.prec = PREC_POSTFIX
                    THEN SetPat(locals, i, Tombstone)
                    ELSE SetPat(locals, i,
                                push_replacement([pat EXCEPT !.always_deref = FALSE],
                                                 Edit(snip, Text("&", 0, FALSE, snip))))
              [] OTHER ->
                    IF ~e.expn
                    THEN SetPat(locals, i,
                                push_replacement([pat EXCEPT !.always_deref = FALSE],
                                                 Edit(snip, Text("&", 0, FALSE, snip))))
                    ELSE SetPat(locals, i, Tombstone)

(***************************************************************************)
(* check_pat.  A pattern handed to the pass: kind is its PatKind, ann the  *)
(* binding annotation, id the HirId of the binding it introduces (the same *)
(* for every arm of an or-pattern), ty its type (pat_ty).                  *)
(***************************************************************************)
Pat(hir_id, kind, ann, id, expn, ty) ==
    [hir_id |-> hir_id, kind |-> kind, ann |-> ann, id |-> id, expn |-> expn, ty |-> ty]

NameSpan(id) == <<"name", id>>

\* the if_chain of check_pat: the pattern binds a reference to an immutable reference
is_ref_to_immutable_ref(pat) ==
    /\ ~pat.expn
    /\ is_ref(pat.ty)
    /\ is_ref(Pointee(pat.ty))
    /\ Pointee(pat.ty).refs[1] = "Not"

\* mutant: a written occurrence of a binding that was disqualified tracks it anew
check_pat_reinserted(locals, cur_body, pat, enclosing_body) ==
    IF ~(pat.kind = "Binding" /\ pat.ann = "Ref")
    THEN [ref_locals |-> locals, current_body |-> cur_body]
    ELSE LET i == IndexIn(locals, pat.id)
             fresh == RefPat(TRUE, <<PatSpan(pat.hir_id)>>,
                             <<Edit(PatSpan(pat.hir_id),
                                    Text("", 0, FALSE, NameSpan(pat.hir_id)))>>,
                             pat.hir_id)
         IN
         IF i # 0
         THEN [ref_locals |->
                  IF ~locals[i].pat.some
                  THEN IF is_ref_to_immutable_ref(pat) THEN SetPat(locals, i, fresh)
                       ELSE locals
                  ELSE IF pat.expn THEN SetPat(locals, i, Tombstone)
                  ELSE SetPat(locals, i,
                         push_replacement(
                            [locals[i].pat EXCEPT
                                !.spans = Append(@, PatSpan(pat.hir_id))],
                            Edit(PatSpan(pat.hir_id),
                                 Text("", 0, FALSE, NameSpan(pat.hir_id))))),
               current_body |-> cur_body]
         ELSE IF is_ref_to_immutable_ref(pat)
              THEN [ref_locals |-> Append(locals, Entry(pat.id, fresh)),
                    current_body |-> IF cur_body # NoId THEN cur_body
                                     ELSE enclosing_body]
              ELSE [ref_locals |-> locals, current_body |-> cur_body]

\* the new ref_locals and current_body
check_pat(locals, cur_body, pat, enclosing_body) ==
    IF ~(pat.kind = "Binding" /\ pat.ann = "Ref")
    THEN [ref_locals |-> locals, current_body |-> cur_body]
    ELSE LET i == IndexIn(locals, pat.id) IN
         IF i # 0
         THEN [ref_locals |->
                  IF ~locals[i].pat.some THEN locals
                  ELSE IF pat.expn THEN SetPat(locals, i, Tombstone)
                  ELSE SetPat(locals, i,
                         push_replacement(
                            [locals[i].pat EXCEPT
                                !.spans = Append(@, PatSpan(pat.hir_id))],
                            Edit(PatSpan(pat.hir_id),
                                 Text("", 0, FALSE, NameSpan(pat.hir_id))))),
               current_body |-> cur_body]
         ELSE IF is_ref_to_immutable_ref(pat)
              THEN [ref_locals |->
                       Append(locals,
                              Entry(pat.id,
                                    RefPat(TRUE, <<PatSpan(pat.hir_id)>>,
                                           <<Edit(PatSpan(pat.hir_id),
                                                  Text("", 0, FALSE,
                                                       NameSpan(pat.hir_id)))>>,
                                           pat.hir_id))),
                    current_body |-> IF cur_body # NoId THEN cur_body
                                     ELSE enclosing_body]
              ELSE [ref_locals |-> locals, current_body |-> cur_body]

(***************************************************************************)
(* check_body_post                                                         *)
(***************************************************************************)
\* mutant: the lint is chosen without looking at always_deref
pat_finding_needless(pat) ==
    Finding(NEEDLESS_BORROW, Some(pat.hir_id), pat.spans,
            "this pattern creates a reference to a reference", pat.replacements)

\* the finding of one drained RefPat
pat_finding(pat) ==
    Finding(IF pat.always_deref THEN NEEDLESS_BORROW ELSE REF_BINDING_TO_REFERENCE,
            Some(pat.hir_id), pat.spans,
            "this pattern creates a reference to a reference", pat.replacements)

RECURSIVE drain(_, _)
drain(locals, i) ==
    IF i > Len(locals) THEN <<>>
    ELSE (IF locals[i].pat.some THEN <<pat_finding(locals[i].pat)>> ELSE <<>>)
         \o drain(locals, i + 1)

\* mutant: the table is flushed at the completion of every body
check_body_post_any(locals, cur_body, body) ==
    [ref_locals |-> <<>>, current_body |-> NoId, out |-> drain(locals, 1)]

\* mutant: the entries are reported but stay in the table
check_body_post_undrained(locals, cur_body, body) ==
    IF Some(body) = cur_body
    THEN [ref_locals |-> locals, current_body |-> NoId, out |-> drain(locals, 1)]
    ELSE [ref_locals |-> locals, current_body |-> cur_body, out |-> <<>>]

\* the new ref_locals and current_body, and the findings emitted
check_body_post(locals, cur_body, body) ==
    IF Some(body) = cur_body
    THEN [ref_locals |-> <<>>, current_body |-> NoId, out |-> drain(locals, 1)]
    ELSE [ref_locals |-> locals, current_body |-> cur_body, out |-> <<>>]

(***************************************************************************)
(* The actions of the pass.                                                *)
(***************************************************************************)
\* cx.enclosing_body
enclosing_body == IF bodies = <<>> THEN NoId ELSE Some(bodies[Len(bodies)])

\* LateLintPass::check_expr
CheckExpr(e) ==
    LET skipped == (skip_expr = Some(e.hir_id))
        locals == IF e.local # NoId
                  THEN check_local_usage(ref_locals, e, e.local[1])
                  ELSE ref_locals
        r == check_expr_chain(state, e)
    IN  /\ skip_expr' = NoId
        /\ nodes' = Append(nodes, e)
        /\ IF skipped
           THEN UNCHANGED <<state, ref_locals, findings>>
           ELSE /\ ref_locals' = locals
                /\ state' = r.state
                /\ findings' = findings \o r.out
        /\ UNCHANGED <<current_body, pats, bodies, closed>>

\* LateLintPass::check_pat
CheckPat(pat) ==
    LET r == check_pat(ref_locals, current_body, pat, enclosing_body)
    IN  /\ ref_locals' = r.ref_locals
        /\ current_body' = r.current_body
        /\ pats' = Append(pats, pat)
        /\ UNCHANGED <<state, skip_expr, findings, nodes, bodies, closed>>

\* LateLintPass::check_body_post, called as the traversal leaves the body
CheckBodyPost(body) ==
    LET r == check_body_post(ref_locals, current_body, body)
    IN  /\ ref_locals' = r.ref_locals
        /\ current_body' = r.current_body
        /\ findings' = findings \o r.out
        /\ bodies' = SubSeq(bodies, 1, Len(bodies) - 1)
        /\ closed' = Append(closed, [body |-> body, ref_locals |-> ref_locals,
                                      current_body |-> current_body])
        /\ UNCHANGED <<state, skip_expr, nodes, pats>>

(***************************************************************************)
(* The traversal driver (rustc_lint::late): which node the visitor hands   *)
(* to the pass next.  After an expression with an operand the operand is   *)
(* visited; after a call `f(arg)` its callee path and then its argument.   *)
(***************************************************************************)
HasOperand(kind) == kind \in {"AddrOf", "UnaryDeref", "MethodCall", "Call"}

\* ExprPrecedence::order of the expression kinds of the model
KindPrec(kind) ==
    CASE kind \in {"AddrOf", "UnaryDeref"} -> PREC_PREFIX
      [] kind \in {"MethodCall", "Call"} -> PREC_POSTFIX
      [] OTHER -> PREC_PAREN

ChildParent(l, first, expn) ==
    Parent("Expr", l.kind, first, None, l.expn = expn, l.expn, KindPrec(l.kind), l.hir_id)

IsCallee(l) ==
    l.kind = "Path" /\ l.parent.node = "Expr" /\ l.parent.kind = "Call"
    /\ l.parent.first /\ l.parent.hir_id # 0

\* the expression whose operand the visitor visits next, 0 if none
Pending ==
    IF nodes = <<>> THEN 0
    ELSE LET l == nodes[Len(nodes)] IN
         IF HasOperand(l.kind) THEN l.hir_id
         ELSE IF IsCallee(l) THEN l.parent.hir_id
         ELSE 0

RefStacks(n) == UNION {[1..k -> Mutability] : k \in 0..n}
ExprBases == {"Adt", "Int"}
Tys == {Ty(r, b) : r \in RefStacks(MaxRefs), b \in ExprBases}
FnDefTy == Ty(<<>>, "FnDef")
RawPtrTy == Ty(<<>>, "RawPtr")

\* the types the operand of a dereference of type ty can have
DerefOperandTys(ty) ==
    {RefTo(m, ty) : m \in {mm \in Mutability : Len(ty.refs) < MaxRefs}}
        \cup {Ty(<<>>, "Adt"), RawPtrTy}

Deref == Adjustment("Deref", None, TRUE)
DerefToValue == Adjustment("Deref", None, FALSE)
BorrowNot == Adjustment("Borrow", "Not", TRUE)
BorrowMut == Adjustment("Borrow", "Mut", TRUE)
OtherAdjust == Adjustment("Other", None, FALSE)

\* d dereferences to a reference
RECURSIVE Derefs(_)
Derefs(d) == IF d = 0 THEN <<>> ELSE <<Deref>> \o Derefs(d - 1)

MaxDerefs == 2

\* the adjustment lists the type checker records on an expression: dereferences
\* of references, then overloaded dereferences, then a borrow or another coercion
AdjLists ==
    {Derefs(d) \o v \o t :
        d \in 0..MaxDerefs,
        v \in {<<>>, <<DerefToValue>>, <<DerefToValue, DerefToValue>>},
        t \in {<<>>, <<BorrowNot>>, <<BorrowMut>>, <<OtherAdjust>>}}

(***************************************************************************)
(* The expressions the visitor can hand over next.  F is the family of     *)
(* programs traversed: the sets its free attributes are drawn from.  An    *)
(* attribute is carried where the pass can read it and is empty elsewhere. *)
(***************************************************************************)
NextId == Len(nodes) + 1

\* the contexts of the next expression, given that it is macro-generated or not
Position(F, expn) ==
    IF Pending = 0
    THEN [parents |-> F.parents, tys |-> F.tys, adjs |-> F.adjs, encls |-> F.encls,
          usages |-> F.usages, callee |-> FALSE]
    ELSE LET l == nodes[Len(nodes)] IN
         CASE l.kind = "AddrOf" ->
                [parents |-> {ChildParent(l, FALSE, expn)}, tys |-> {l.sub_ty},
                 adjs |-> F.operand_adjs, encls |-> {<<>>}, usages |-> {NoUsage},
                 callee |-> FALSE]
           [] l.kind = "UnaryDeref" ->
                [parents |-> {ChildParent(l, FALSE, expn)}, tys |-> {l.sub_ty},
                 adjs |-> {<<>>}, encls |-> {<<>>}, usages |-> {NoUsage},
                 callee |-> FALSE]
           [] l.kind = "MethodCall" ->
                [parents |-> {ChildParent(l, TRUE, expn)}, tys |-> {l.sub_ty},
                 adjs |-> F.adjs, encls |-> {<<>>},
                 usages |-> {Usage("MethodCall", FALSE, FALSE, NoHirTy, NoTy)},
                 callee |-> FALSE]
           [] l.kind = "Call" ->
                [parents |-> {ChildParent(l, TRUE, expn)}, tys |-> {FnDefTy},
                 adjs |-> {<<>>}, encls |-> {<<>>},
                 usages |-> {Usage("Call", FALSE, FALSE, NoHirTy, NoTy)},
                 callee |-> TRUE]
           [] OTHER ->
                LET c == nodes[l.parent.hir_id] IN
                [parents |-> {ChildParent(c, FALSE, expn)}, tys |-> {c.sub_ty},
                 adjs |-> F.adjs, encls |-> {<<>>},
                 usages |-> {u \in F.usages : u.node = "Call"} \cup
                            {Usage("Call", FALSE, FALSE, NoHirTy, NoTy)},
                 callee |-> FALSE]

\* walk_to_expr_usage stops at the parent when the parent is a `let`, a
\* `return`, a call, a method call or a struct literal: the usage node of an
\* expression agrees with its parent.  A parent that is no expression, `let`
\* or block is an item (the walk stops at it: a constant, a static or a
\* function), the arm of a match (the walk goes on from the match, and may
\* stop at any node) or a node at which the walk gives up.
Coherent(p, u) ==
    CASE p.node = "Local" -> u.node = "Local"
      [] p.node = "Other" ->
            \/ u = NoUsage
            \/ u.node \in {"ConstItem", "FnItem", "Local", "Ret", "Call",
                           "MethodCall", "Struct"}
      [] p.node = "Expr" /\ p.kind = "Ret" -> u.node = "Ret"
      [] p.node = "Expr" /\ p.kind = "Call" -> u.node = "Call" /\ (p.first => ~u.found)
      [] p.node = "Expr" /\ p.kind = "MethodCall" ->
            u.node = "MethodCall" /\ (u.found <=> ~p.first)
      [] p.node = "Expr" /\ p.kind = "Struct" -> u.node = "Struct"
      [] OTHER -> u = NoUsage

\* the parent of an expression is a block or a break exactly if the walk of
\* find_adjustments begins with that frame
Enclosed(p, n) ==
    /\ p.node = "Block" <=> (n # <<>> /\ n[1].node = "Block")
    /\ (p.node = "Expr" /\ p.kind = "Break") <=> (n # <<>> /\ n[1].node = "Break")

\* walk_to_expr_usage goes through the enclosing blocks and break targets: it
\* stops at a break whose target is not resolved, and otherwise at the node
\* that encloses the last of them
RECURSIVE CoherentEncl(_, _, _)
CoherentEncl(n, i, u) ==
    IF i > Len(n) THEN TRUE
    ELSE IF n[i].node = "Break" /\ ~n[i].reaches_expr THEN u = NoUsage
    ELSE IF n[i].node = "Block" /\ ~n[i].reaches_expr THEN u.node \in {None, "Local"}
    ELSE CoherentEncl(n, i + 1, u)

\* the callee and the argument of a call must still fit in the traversal
Room(F, kind) == kind = "Call" => NextId + 2 <= F.nodes

NextExprsOf(F, kind, expn) ==
    LET pos == Position(F, expn) IN
    IF pos.callee
    THEN IF kind = "Path"
         THEN {Expr(NextId, "Path", None, NoId, expn, t, NoTy, p, <<>>, <<>>, u,
                    FALSE, PREC_PAREN, FALSE) :
                    t \in pos.tys, p \in pos.parents, u \in pos.usages}
         ELSE {}
    ELSE
    CASE kind = "AddrOf" /\ Room(F, kind) ->
            UNION {UNION {{Expr(NextId, kind, None, NoId, expn, t, Pointee(t), p, a, n, u,
                                FALSE, PREC_PREFIX, FALSE) :
                                t \in {tt \in pos.tys : is_ref(tt)},
                                a \in pos.adjs,
                                u \in {uu \in pos.usages :
                                          IF n = <<>> THEN Coherent(p, uu)
                                          ELSE CoherentEncl(n, 1, uu)}} :
                          n \in {nn \in pos.encls : Enclosed(p, nn)}} :
                   p \in pos.parents}
      [] kind = "UnaryDeref" /\ Room(F, kind) ->
            UNION {{Expr(NextId, kind, None, NoId, expn, t, st, p, <<>>, <<>>,
                         NoUsage, FALSE, PREC_PREFIX, FALSE) :
                         st \in DerefOperandTys(t) \cap F.operand_tys,
                         p \in pos.parents} : t \in pos.tys}
      [] kind \in {"MethodCall", "Call"} /\ Room(F, kind) ->
            UNION {{Expr(NextId, kind, r, NoId, expn, t, st, p, <<>>, <<>>,
                         NoUsage, al, PREC_POSTFIX, FALSE) :
                         t \in {tt \in pos.tys :
                                  is_ref(tt) /\ (r = "deref" => tt.refs[1] = "Not")
                                             /\ (r = "deref_mut" => tt.refs[1] = "Mut")},
                         st \in F.operand_tys, p \in pos.parents,
                         al \in F.allowed} : r \in F.res}
      [] kind = "Path" ->
            UNION {{Expr(NextId, kind, None, loc, expn, t, NoTy, p,
                         a, <<>>, NoUsage, FALSE, PREC_PAREN, FALSE) :
                         t \in pos.tys, p \in pos.parents,
                         a \in {aa \in F.usage_adjs : loc = NoId => aa = <<>>}} :
                   loc \in F.locals}
      [] kind = "Other" ->
            {Expr(NextId, kind, None, NoId, expn, t, NoTy, p, <<>>, <<>>, NoUsage,
                  FALSE, o[1], o[2]) :
                  t \in pos.tys, p \in pos.parents, o \in F.others}
      [] OTHER -> {}

NextExprs(F) == UNION {NextExprsOf(F, k, x) : k \in F.kinds, x \in F.expns}

\* the visitor hands the next expression to check_expr
\* the number of expressions visited that are not operands of a visited one
Tops == Cardinality({i \in 1..Len(nodes) : nodes[i].parent.hir_id = 0})

VisitExpr(F) ==
    /\ bodies # <<>>
    /\ Len(nodes) < F.nodes
    /\ Pending = 0 => Tops < F.tops
    /\ \E e \in NextExprs(F) : CheckExpr(e)
    /\ in_pat' = {}

\* the patterns the visitor can hand over next: the arms of an or-pattern
\* introduce the same binding with the same mode and type, and a binding
\* occurs again only in a further arm of the pattern that introduces it
NextPats(F) ==
    {Pat(Len(pats) + 1, k[1], k[2], id, x, t) :
        k \in F.pat_kinds, id \in 1..MaxBindings, x \in F.pat_expns, t \in F.pat_tys}

SeenBinding(id) == \E i \in 1..Len(pats) : pats[i].kind = "Binding" /\ pats[i].id = id

SameBinding(pat) ==
    \A i \in 1..Len(pats) :
        (pats[i].kind = "Binding" /\ pat.kind = "Binding" /\ pats[i].id = pat.id)
            => (pats[i].ann = pat.ann /\ pats[i].ty = pat.ty)

VisitPat(F) ==
    /\ bodies # <<>>
    /\ Pending = 0
    /\ Len(pats) < MaxPats
    /\ \E pat \in NextPats(F) :
            /\ SameBinding(pat)
            /\ SeenBinding(pat.id) => pat.id \in in_pat
            /\ CheckPat(pat)
            /\ in_pat' = in_pat \cup {pat.id}

\* the visitor enters a body (a function body, or a closure body nested in one)
EnterBody(F) ==
    /\ Pending = 0
    /\ Len(bodies) + Len(closed) < F.bodies
    /\ bodies' = Append(bodies, Len(bodies) + Len(closed) + 1)
    /\ in_pat' = {}
    /\ UNCHANGED <<state, skip_expr, current_body, ref_locals, findings, nodes,
                   pats, closed>>

\* the visitor leaves the innermost body
LeaveBody ==
    /\ bodies # <<>>
    /\ Pending = 0
    /\ CheckBodyPost(bodies[Len(bodies)])
    /\ in_pat' = {}

\* #[derive(Default)] Dereferencing, before the traversal
Init ==
    /\ state = NoState
    /\ skip_expr = NoId
    /\ current_body = NoId
    /\ ref_locals = <<>>
    /\ findings = <<>>
    /\ nodes = <<>>
    /\ pats = <<>>
    /\ bodies = <<>>
    /\ closed = <<>>
    /\ in_pat = {}

(***************************************************************************)
(* Families of programs.                                                   *)
(***************************************************************************)
ParentLocal == Parent("Local", None, FALSE, None, TRUE, FALSE, 0, 0)
ParentOther == Parent("Other", None, FALSE, None, TRUE, FALSE, 0, 0)
ParentExpr(kind, first, prec) == Parent("Expr", kind, first, None, TRUE, FALSE, prec, 0)
ParentCallArg == ParentExpr("Call", FALSE, PREC_POSTFIX)
ParentCallee == ParentExpr("Call", TRUE, PREC_POSTFIX)
ParentField == ParentExpr("Field", TRUE, PREC_POSTFIX)
ParentIndex == ParentExpr("Index", TRUE, PREC_POSTFIX)
ParentReceiver == ParentExpr("MethodCall", TRUE, PREC_POSTFIX)
ParentMethodArg == ParentExpr("MethodCall", FALSE, PREC_POSTFIX)
ParentDeref == ParentExpr("UnaryDeref", TRUE, PREC_PREFIX)
ParentAssign == ParentExpr("Assign", FALSE, 1)
ParentTry == Parent("Expr", "Match", TRUE, "TryDesugar", TRUE, FALSE, PREC_PAREN, 0)
ParentMatch == Parent("Expr", "Match", TRUE, "Normal", TRUE, FALSE, PREC_PAREN, 0)
ParentMacro == Parent("Expr", "Call", FALSE, None, FALSE, TRUE, PREC_POSTFIX, 0)
ParentAwait == Parent("Expr", "Match", TRUE, "AwaitDesugar", TRUE, FALSE, PREC_PAREN, 0)
ParentErr == ParentExpr("Err", FALSE, PREC_PAREN)
ParentMacroField == Parent("Expr", "Field", TRUE, None, FALSE, TRUE, PREC_POSTFIX, 0)
ParentBlock == Parent("Block", None, FALSE, None, TRUE, FALSE, 0, 0)
ParentBreak == ParentExpr("Break", FALSE, PREC_JUMP)
ParentRet == ParentExpr("Ret", TRUE, PREC_JUMP)
ParentStruct == ParentExpr("Struct", FALSE, PREC_PAREN)

\* `let x: &T = ..`, `let x: &_ = ..`, an argument of `fn f(_: &i32)`, of `fn f<T>(_: &T)`
UsageLocalStable ==
    Usage("Local", FALSE, FALSE, HirTy("Rptr", <<HirTy("Path", <<>>)>>), NoTy)
UsageLocalInfer ==
    Usage("Local", FALSE, FALSE, HirTy("Rptr", <<HirTy("Infer", <<>>)>>), NoTy)
UsageArgStable == Usage("Call", FALSE, TRUE, NoHirTy, Ty(<<"Not">>, "Int"))
UsageArgParam == Usage("Call", FALSE, TRUE, NoHirTy, Ty(<<"Not">>, "Param"))

OperandTys == Tys \cup {RawPtrTy}

\* chains of borrows and dereferences
BorrowFamily ==
    [kinds |-> {"AddrOf", "UnaryDeref", "Path", "Other"},
     expns |-> BOOLEAN,
     parents |-> {ParentLocal, ParentCallArg, ParentField, ParentMatch, ParentOther},
     tys |-> {Ty(<<"Not", "Not">>, "Int"), Ty(<<"Not", "Not", "Not">>, "Int")},
     operand_tys |-> OperandTys,
     adjs |-> {a \in AdjLists : Len(a) <= MaxDerefs + 2},
     operand_adjs |-> {<<>>},
     encls |-> {<<>>},
     usages |-> {UsageLocalStable, UsageLocalInfer, UsageArgStable, UsageArgParam,
                 NoUsage},
     res |-> {},
     allowed |-> {FALSE},
     locals |-> {NoId},
     usage_adjs |-> {<<>>},
     others |-> {<<PREC_JUMP, FALSE>>, <<PREC_POSTFIX, FALSE>>},
     pat_kinds |-> {},
     pat_expns |-> {},
     pat_tys |-> {},
     tops |-> MaxTops,
     nodes |-> MaxNodes,
     bodies |-> 1]

NextBorrow ==
    \/ EnterBody(BorrowFamily)
    \/ VisitExpr(BorrowFamily)
    \/ LeaveBody

SpecBorrow == Init /\ [][NextBorrow]_vars

\* chains of calls of deref and deref_mut, in method and in path form
MethodFamily ==
    [kinds |-> {"MethodCall", "Call", "Path", "Other"},
     expns |-> BOOLEAN,
     parents |-> {ParentLocal, ParentCallArg, ParentReceiver},
     tys |-> {Ty(<<"Not">>, "Adt"), Ty(<<"Mut">>, "Adt")},
     operand_tys |-> {Ty(<<"Not">>, "Adt"), Ty(<<"Mut">>, "Adt"), Ty(<<>>, "Adt")},
     adjs |-> {<<>>},
     operand_adjs |-> {<<>>},
     encls |-> {<<>>},
     usages |-> {NoUsage},
     res |-> {"deref", "deref_mut", "other"},
     allowed |-> BOOLEAN,
     locals |-> {NoId},
     usage_adjs |-> {<<>>},
     others |-> {<<PREC_JUMP, FALSE>>},
     pat_kinds |-> {},
     pat_expns |-> {},
     pat_tys |-> {},
     tops |-> MaxTops,
     nodes |-> MaxNodes,
     bodies |-> 1]

NextMethod ==
    \/ EnterBody(MethodFamily)
    \/ VisitExpr(MethodFamily)
    \/ LeaveBody

SpecMethod == Init /\ [][NextMethod]_vars

\* by-reference bindings and their usages, in nested bodies
PatFamily ==
    [kinds |-> {"UnaryDeref", "Path"},
     expns |-> {FALSE},
     parents |-> {ParentLocal, ParentCallArg},
     tys |-> {Ty(<<"Not">>, "Adt")},
     operand_tys |-> {Ty(<<"Not", "Not">>, "Adt")},
     adjs |-> {<<>>},
     operand_adjs |-> {<<>>},
     encls |-> {<<>>},
     usages |-> {NoUsage},
     res |-> {},
     allowed |-> {FALSE},
     locals |-> {Some(id) : id \in 1..MaxBindings},
     usage_adjs |-> {<<>>, <<Deref, Deref>>},
     others |-> {},
     pat_kinds |-> {<<"Binding", "Ref">>},
     pat_expns |-> BOOLEAN,
     pat_tys |-> {Ty(<<"Not", "Not">>, "Adt")},
     tops |-> MaxUses,
     nodes |-> MaxUses,
     bodies |-> MaxBodies]

NextPat ==
    \/ EnterBody(PatFamily)
    \/ VisitPat(PatFamily)
    \/ VisitExpr(PatFamily)
    \/ LeaveBody

SpecPat == Init /\ [][NextPat]_vars

\* chains that mix borrows, dereferences and deref calls
ChainFamily ==
    [kinds |-> {"AddrOf", "UnaryDeref", "MethodCall", "Path", "Other"},
     expns |-> BOOLEAN,
     parents |-> {ParentLocal, ParentCallArg},
     tys |-> {Ty(<<"Not", "Not">>, "Adt")},
     operand_tys |-> {Ty(<<"Not">>, "Adt"), Ty(<<"Not", "Not">>, "Adt"),
                      Ty(<<>>, "Adt"), RawPtrTy},
     adjs |-> {<<>>, <<Deref, DerefToValue, BorrowNot>>},
     operand_adjs |-> {<<>>},
     encls |-> {<<>>},
     usages |-> {UsageLocalStable, UsageLocalInfer, UsageArgStable, UsageArgParam},
     res |-> {"deref", "other"},
     allowed |-> {FALSE},
     locals |-> {NoId},
     usage_adjs |-> {<<>>},
     others |-> {<<PREC_JUMP, FALSE>>},
     pat_kinds |-> {},
     pat_expns |-> {},
     pat_tys |-> {},
     tops |-> MaxTops,
     nodes |-> MaxNodes,
     bodies |-> 1]

Next ==
    \/ EnterBody(ChainFamily)
    \/ VisitExpr(ChainFamily)
    \/ LeaveBody

Spec == Init /\ [][Next]_vars

\* chains of every kind, deref calls in path form included, in nested bodies
LifecycleFamily ==
    [kinds |-> {"AddrOf", "UnaryDeref", "MethodCall", "Call", "Path", "Other"},
     expns |-> BOOLEAN,
     parents |-> {ParentLocal},
     tys |-> {Ty(<<"Not", "Not">>, "Adt")},
     operand_tys |-> {Ty(<<"Not">>, "Adt"), Ty(<<>>, "Adt")},
     adjs |-> {<<>>, <<Deref, DerefToValue, BorrowNot>>},
     operand_adjs |-> {<<>>},
     encls |-> {<<>>},
     usages |-> {UsageLocalStable, UsageLocalInfer},
     res |-> {"deref", "other"},
     allowed |-> {FALSE},
     locals |-> {NoId},
     usage_adjs |-> {<<>>},
     others |-> {<<PREC_JUMP, FALSE>>},
     pat_kinds |-> {},
     pat_expns |-> {},
     pat_tys |-> {},
     tops |-> MaxTops,
     nodes |-> MaxNodes,
     bodies |-> MaxBodies]

NextLifecycle ==
    \/ EnterBody(LifecycleFamily)
    \/ VisitExpr(LifecycleFamily)
    \/ LeaveBody

SpecLifecycle == Init /\ [][NextLifecycle]_vars

\* borrows whose coercions are recorded on an enclosing block or break target,
\* or whose enclosing block or break leads to no expression
EnclosingFamily ==
    [kinds |-> {"AddrOf", "UnaryDeref", "Path", "Other"},
     expns |-> BOOLEAN,
     parents |-> {ParentLocal, ParentBlock, ParentBreak},
     tys |-> {Ty(<<"Not", "Not">>, "Int")},
     operand_tys |-> {Ty(<<"Not", "Not">>, "Int"), Ty(<<"Not">>, "Int"), Ty(<<>>, "Adt")},
     adjs |-> {<<>>, <<Deref, DerefToValue, BorrowNot>>},
     operand_adjs |-> {<<>>},
     encls |-> UNION {{<<>>, <<Frame(k, r, a)>>,
                       <<Frame(k, TRUE, <<>>), Frame("Block", r, a)>>} :
                      k \in {"Block", "Break"}, r \in BOOLEAN,
                      a \in {<<>>, <<Deref, DerefToValue, BorrowNot>>}},
     usages |-> {UsageLocalStable, UsageLocalInfer, NoUsage},
     res |-> {},
     allowed |-> {FALSE},
     locals |-> {NoId},
     usage_adjs |-> {<<>>},
     others |-> {<<PREC_JUMP, FALSE>>},
     pat_kinds |-> {},
     pat_expns |-> {},
     pat_tys |-> {},
     tops |-> MaxTops,
     nodes |-> MaxNodes,
     bodies |-> 1]

NextEnclosing ==
    \/ EnterBody(EnclosingFamily)
    \/ VisitExpr(EnclosingFamily)
    \/ LeaveBody

SpecEnclosing == Init /\ [][NextEnclosing]_vars

\* nested borrows, the inner ones with coercions recorded on them: every pair
\* of an open DerefedBorrow state and a borrow that the match of check_expr
\* can be handed
NestedFamily ==
    [kinds |-> {"AddrOf", "Path", "Other"},
     expns |-> BOOLEAN,
     parents |-> {ParentLocal, ParentCallArg, ParentField},
     tys |-> {Ty(<<"Not", "Not", "Not">>, "Int")},
     operand_tys |-> {},
     adjs |-> {a \in AdjLists : Len(a) <= MaxDerefs + 1},
     operand_adjs |-> {<<>>, <<Deref, DerefToValue, BorrowNot>>},
     encls |-> {<<>>},
     usages |-> {UsageLocalStable, UsageArgStable, UsageArgParam, NoUsage},
     res |-> {},
     allowed |-> {FALSE},
     locals |-> {NoId},
     usage_adjs |-> {<<>>},
     others |-> {<<PREC_JUMP, FALSE>>},
     pat_kinds |-> {},
     pat_expns |-> {},
     pat_tys |-> {},
     tops |-> MaxTops,
     nodes |-> MaxNodes,
     bodies |-> 1]

NextNested ==
    \/ EnterBody(NestedFamily)
    \/ VisitExpr(NestedFamily)
    \/ LeaveBody

SpecNested == Init /\ [][NextNested]_vars

\* a borrow in every position that the counting of the required layers
\* distinguishes
PositionFamily ==
    [kinds |-> {"AddrOf", "Path"},
     expns |-> BOOLEAN,
     parents |-> {ParentLocal, ParentOther, ParentCallArg, ParentCallee, ParentField,
                  ParentReceiver, ParentMethodArg, ParentAssign, ParentMatch,
                  ParentRet, ParentStruct},
     tys |-> {Ty(<<"Mut", "Mut">>, "Int")},
     operand_tys |-> {},
     adjs |-> AdjLists,
     operand_adjs |-> {<<>>},
     encls |-> {<<>>},
     usages |-> {UsageLocalStable, UsageLocalInfer, UsageArgStable,
                 Usage("Call", FALSE, FALSE, NoHirTy, NoTy),
                 Usage("MethodCall", FALSE, TRUE, NoHirTy, Ty(<<"Not">>, "Int")),
                 Usage("MethodCall", FALSE, FALSE, NoHirTy, NoTy),
                 Usage("ConstItem", FALSE, FALSE, NoHirTy, NoTy),
                 Usage("FnItem", TRUE, FALSE, NoHirTy, NoTy),
                 Usage("FnItem", FALSE, FALSE, NoHirTy, NoTy),
                 Usage("Ret", TRUE, FALSE, NoHirTy, NoTy),
                 Usage("Ret", FALSE, FALSE, NoHirTy, NoTy),
                 Usage("Struct", FALSE, TRUE, NoHirTy, Ty(<<"Not">>, "Int")),
                 Usage("Struct", FALSE, TRUE, NoHirTy, Ty(<<"Not">>, "Param")),
                 Usage("Struct", FALSE, FALSE, NoHirTy, NoTy),
                 NoUsage},
     res |-> {},
     allowed |-> {FALSE},
     locals |-> {NoId},
     usage_adjs |-> {<<>>},
     others |-> {},
     pat_kinds |-> {},
     pat_expns |-> {},
     pat_tys |-> {},
     tops |-> MaxTops,
     nodes |-> MaxNodes,
     bodies |-> 1]

NextPosition ==
    \/ EnterBody(PositionFamily)
    \/ VisitExpr(PositionFamily)
    \/ LeaveBody

SpecPosition == Init /\ [][NextPosition]_vars

\* a deref call in every position that is_linted_explicit_deref_position
\* distinguishes
CallPositionFamily ==
    [kinds |-> {"MethodCall", "Call", "Path"},
     expns |-> BOOLEAN,
     parents |-> {ParentLocal, ParentOther, ParentCallArg, ParentCallee, ParentField,
                  ParentIndex, ParentReceiver, ParentMethodArg, ParentDeref,
                  ParentAssign, ParentTry, ParentAwait, ParentMatch, ParentErr,
                  ParentMacro, ParentMacroField},
     tys |-> {Ty(<<"Not">>, "Adt")},
     operand_tys |-> {Ty(<<"Not">>, "Adt"), Ty(<<>>, "Adt")},
     adjs |-> {<<>>},
     operand_adjs |-> {<<>>},
     encls |-> {<<>>},
     usages |-> {NoUsage},
     res |-> {"deref", "other"},
     allowed |-> BOOLEAN,
     locals |-> {NoId},
     usage_adjs |-> {<<>>},
     others |-> {},
     pat_kinds |-> {},
     pat_expns |-> {},
     pat_tys |-> {},
     tops |-> MaxTops,
     nodes |-> MaxNodes,
     bodies |-> 1]

NextCallPosition ==
    \/ EnterBody(CallPositionFamily)
    \/ VisitExpr(CallPositionFamily)
    \/ LeaveBody

SpecCallPosition == Init /\ [][NextCallPosition]_vars

\* usages of by-reference bindings in every context that check_local_usage
\* distinguishes: written and macro-generated usages, with and without
\* implicit dereferences, under written and macro-generated parents
UsageFamily ==
    [kinds |-> {"UnaryDeref", "Path"},
     expns |-> BOOLEAN,
     parents |-> {ParentLocal, ParentCallArg, ParentField, ParentMacroField,
                  ParentAssign, ParentMacro},
     tys |-> {Ty(<<"Not">>, "Adt")},
     operand_tys |-> {Ty(<<"Not", "Not">>, "Adt")},
     adjs |-> {<<>>},
     operand_adjs |-> {<<>>},
     encls |-> {<<>>},
     usages |-> {NoUsage},
     res |-> {},
     allowed |-> {FALSE},
     locals |-> {Some(id) : id \in 1..MaxBindings},
     usage_adjs |-> {<<>>, <<Deref>>, <<Deref, DerefToValue, BorrowNot>>},
     others |-> {},
     pat_kinds |-> {<<"Binding", "Ref">>},
     pat_expns |-> {FALSE},
     pat_tys |-> {Ty(<<"Not", "Not">>, "Adt")},
     tops |-> MaxUses - 1,
     nodes |-> MaxUses - 1,
     bodies |-> 1]

NextUsage ==
    \/ EnterBody(UsageFamily)
    \/ VisitPat(UsageFamily)
    \/ VisitExpr(UsageFamily)
    \/ LeaveBody

SpecUsage == Init /\ [][NextUsage]_vars

\* by-reference bindings of every shape of type that check_pat distinguishes,
\* in written and in macro-generated arms, and their usages
BindingFamily ==
    [kinds |-> {"UnaryDeref", "Path"},
     expns |-> {FALSE},
     parents |-> {ParentLocal, ParentCallArg},
     tys |-> {Ty(<<"Not">>, "Adt")},
     operand_tys |-> {Ty(<<"Not", "Not">>, "Adt")},
     adjs |-> {<<>>},
     operand_adjs |-> {<<>>},
     encls |-> {<<>>},
     usages |-> {NoUsage},
     res |-> {},
     allowed |-> {FALSE},
     locals |-> {Some(id) : id \in 1..MaxBindings},
     usage_adjs |-> {<<>>},
     others |-> {},
     pat_kinds |-> {<<"Binding", "Ref">>},
     pat_expns |-> BOOLEAN,
     pat_tys |-> {Ty(<<"Not", "Not">>, "Adt"), Ty(<<"Not", "Mut">>, "Adt"),
                  Ty(<<"Mut", "Not">>, "Adt"), Ty(<<"Not">>, "Adt")},
     tops |-> MaxUses - 1,
     nodes |-> MaxUses - 1,
     bodies |-> 1]

NextBinding ==
    \/ EnterBody(BindingFamily)
    \/ VisitPat(BindingFamily)
    \/ VisitExpr(BindingFamily)
    \/ LeaveBody

SpecBinding == Init /\ [][NextBinding]_vars

\* the kinds of type (rustc_middle::ty::TyKind) a parameter can have under its
\* reference layers
ParamBases ==
    {"Bool", "Char", "Int", "Uint", "Float", "Foreign", "Str", "Array", "Slice",
     "RawPtr", "FnDef", "FnPtr", "Closure", "Generator", "GeneratorWitness",
     "Never", "Tuple", "Projection", "Infer", "Error", "Param", "Bound", "Opaque",
     "Placeholder", "Dynamic", "Adt", "AdtParam"}

\* a borrow as the argument of a call or of a method call, for every type of
\* the parameter: no, one or two reference layers over every kind of type
ParamFamily ==
    [kinds |-> {"AddrOf", "Path"},
     expns |-> BOOLEAN,
     parents |-> {ParentCallArg, ParentMethodArg},
     tys |-> {Ty(<<"Not", "Not">>, "Int")},
     operand_tys |-> {},
     adjs |-> {<<>>, <<Deref>>, <<Deref, Deref>>},
     operand_adjs |-> {<<>>},
     encls |-> {<<>>},
     usages |-> {Usage(n, FALSE, TRUE, NoHirTy, Ty(r, b)) :
                    n \in {"Call", "MethodCall"},
                    r \in {<<>>, <<"Not">>, <<"Mut">>, <<"Not", "Not">>},
                    b \in ParamBases}
                \cup {Usage("Call", FALSE, FALSE, NoHirTy, NoTy)},
     res |-> {},
     allowed |-> {FALSE},
     locals |-> {NoId},
     usage_adjs |-> {<<>>},
     others |-> {},
     pat_kinds |-> {},
     pat_expns |-> {},
     pat_tys |-> {},
     tops |-> MaxTops,
     nodes |-> MaxNodes,
     bodies |-> 1]

NextParam ==
    \/ EnterBody(ParamFamily)
    \/ VisitExpr(ParamFamily)
    \/ LeaveBody

SpecParam == Init /\ [][NextParam]_vars

\* a borrow with every list of coercions, recorded on the borrow itself or on
\* an enclosing block expression or break target
CountFamily ==
    [kinds |-> {"AddrOf", "Path"},
     expns |-> BOOLEAN,
     parents |-> {ParentLocal, ParentField, ParentBlock, ParentBreak},
     tys |-> {Ty(<<"Not", "Not">>, "Int")},
     operand_tys |-> {},
     adjs |-> AdjLists,
     operand_adjs |-> {<<>>},
     encls |-> UNION {{<<>>, <<Frame(k, r, a)>>,
                       <<Frame(k, TRUE, <<>>), Frame("Block", r, a)>>} :
                      k \in {"Block", "Break"}, r \in BOOLEAN,
                      a \in {<<>>, <<Deref, DerefToValue, DerefToValue>>,
                             <<Deref, Deref, Deref, BorrowMut>>}},
     usages |-> {UsageLocalStable, NoUsage},
     res |-> {},
     allowed |-> {FALSE},
     locals |-> {NoId},
     usage_adjs |-> {<<>>},
     others |-> {},
     pat_kinds |-> {},
     pat_expns |-> {},
     pat_tys |-> {},
     tops |-> MaxTops,
     nodes |-> MaxNodes - 1,
     bodies |-> 1]

NextCount ==
    \/ EnterBody(CountFamily)
    \/ VisitExpr(CountFamily)
    \/ LeaveBody

SpecCount == Init /\ [][NextCount]_vars

\* chains of every kind that are extended: deref calls, dereferences after a
\* borrow, and nested borrows under a borrow with a layer to spare
AnchorFamily ==
    [LifecycleFamily EXCEPT
        !.adjs = @ \cup {<<Deref, Deref, DerefToValue>>},
        !.bodies = 1]

NextAnchor ==
    \/ EnterBody(AnchorFamily)
    \/ VisitExpr(AnchorFamily)
    \/ LeaveBody

SpecAnchor == Init /\ [][NextAnchor]_vars

\* by-reference bindings used inside chains of borrows and dereferences
FrameFamily ==
    [kinds |-> {"AddrOf", "UnaryDeref", "Path"},
     expns |-> BOOLEAN,
     parents |-> {ParentLocal, ParentCallArg},
     tys |-> {Ty(<<"Not">>, "Adt")},
     operand_tys |-> {Ty(<<"Not", "Not">>, "Adt"), Ty(<<"Not">>, "Adt"), Ty(<<>>, "Adt")},
     adjs |-> {<<>>},
     operand_adjs |-> {<<>>},
     encls |-> {<<>>},
     usages |-> {UsageLocalStable, UsageArgStable},
     res |-> {},
     allowed |-> {FALSE},
     locals |-> {NoId} \cup {Some(id) : id \in 1..MaxBindings},
     usage_adjs |-> {<<>>},
     others |-> {},
     pat_kinds |-> {<<"Binding", "Ref">>},
     pat_expns |-> BOOLEAN,
     pat_tys |-> {Ty(<<"Not", "Not">>, "Adt")},
     tops |-> MaxTops,
     nodes |-> MaxUses,
     bodies |-> 1]

NextFrame ==
    \/ EnterBody(FrameFamily)
    \/ VisitPat(FrameFamily)
    \/ VisitExpr(FrameFamily)
    \/ LeaveBody

SpecFrame == Init /\ [][NextFrame]_vars

(***************************************************************************)
(* Vocabulary of the properties.                                           *)
(***************************************************************************)
Min(a, b) == IF a < b THEN a ELSE b

\* node i was visited, is written in the source and is a borrow
IsBorrow(i) == i <= Len(nodes) /\ nodes[i].kind = "AddrOf" /\ ~nodes[i].expn

\* node i was visited, is written in the source and is an explicit dereference
IsDeref(i) ==
    i <= Len(nodes) /\ nodes[i].kind = "UnaryDeref" /\ ~nodes[i].expn
    /\ ~is_unsafe_ptr(nodes[i].sub_ty)

\* node i is a borrow that is not the operand of a visited expression: the
\* pass has no open state when it is visited
ChainStart(i) == IsBorrow(i) /\ nodes[i].parent.hir_id = 0

\* nodes i .. i+n-1 are n nested borrows and node i+n is a dereference
BorrowRun(i, n) ==
    /\ \A k \in i..(i + n - 1) : IsBorrow(k)
    /\ IsDeref(i + n)

\* the number of implicit dereferences and of required reference layers at a borrow
ImplicitDerefs(e) == count_derefs(find_adjustments(e), 1, 0).deref_count
RequiredRefs(e) ==
    required_refs(e, ImplicitDerefs(e),
                  count_derefs(find_adjustments(e), 1, 0).next_adjust).refs

\* the node a finding is placed at, and the node whose text replaces it
Anchor(f) == f.spans[1]
Replacement(f) == f.edits[1].text.snip

FindingsAt(lint, i) ==
    {k \in 1..Len(findings) : findings[k].lint = lint /\ Anchor(findings[k]) = ExprSpan(i)}

(***************************************************************************)
(* C1 (as stated): for every chain of n nested borrows around n nested     *)
(* dereferences at a position requiring r < n reference layers, a          *)
(* needless-borrow finding is reported whose replacement has exactly n - r *)
(* fewer borrow layers than the anchored expression.                       *)
(***************************************************************************)
C1_Original ==
    \A i \in 1..Len(nodes) : \A n \in 1..MaxNodes :
        (ChainStart(i) /\ BorrowRun(i, n) /\ RequiredRefs(nodes[i]) < n)
            => \E k \in FindingsAt(NEEDLESS_BORROW, i) :
                    Replacement(findings[k]) = ExprSpan(i + n - RequiredRefs(nodes[i]))

(***************************************************************************)
(* C1 (amended): for every chain of n nested borrows followed by an        *)
(* explicit dereference, at a position requiring r layers where d implicit *)
(* dereferences were recorded: if d >= r exactly one needless-borrow       *)
(* finding is reported on the outermost borrow and its replacement has     *)
(* exactly min(n, d - r + 1) fewer borrow layers; if d < r none is.        *)
(***************************************************************************)
C1_Reclaimed ==
    \A i \in 1..Len(nodes) : \A n \in 1..MaxNodes :
        (ChainStart(i) /\ BorrowRun(i, n))
            => LET d == ImplicitDerefs(nodes[i])
                   r == RequiredRefs(nodes[i])
                   at == FindingsAt(NEEDLESS_BORROW, i)
               IN  IF d >= r
                   THEN /\ Cardinality(at) = 1
                        /\ \A k \in at :
                              Replacement(findings[k]) = ExprSpan(i + Min(n, d - r + 1))
                   ELSE at = {}

\* a chain of two borrows at a position requiring one layer, with two implicit
\* dereferences, has been reported: both borrows are reclaimed
C1_Witness ==
    \E i \in 1..Len(nodes) :
        /\ ChainStart(i) /\ BorrowRun(i, 2)
        /\ RequiredRefs(nodes[i]) = 1
        /\ ImplicitDerefs(nodes[i]) = 2
        /\ \E k \in FindingsAt(NEEDLESS_BORROW, i) :
                Replacement(findings[k]) = ExprSpan(i + 2)

(***************************************************************************)
(* A borrow at node i directly around a dereference of a value that is not *)
(* a reference, the chain being broken by node i + 2.                      *)
(***************************************************************************)
BorrowOfDeref(i) ==
    /\ ChainStart(i) /\ IsDeref(i + 1)
    /\ ~is_ref(nodes[i + 1].sub_ty)
    /\ i + 2 <= Len(nodes) /\ ~IsDeref(i + 2)

\* the findings placed on node i or on node i + 1
FindingsOn(i) ==
    {k \in 1..Len(findings) : Anchor(findings[k]) \in {ExprSpan(i), ExprSpan(i + 1)}}

(***************************************************************************)
(* C2 (as stated): a borrow directly around a dereference of a value that  *)
(* is not a reference is reported as an explicit auto-deref finding when   *)
(* the borrow is in a stable auto-deref position, whatever the counts of   *)
(* implicit dereferences and of required layers; in an unstable position   *)
(* the pair produces no finding of any category.                           *)
(***************************************************************************)
C2_Original ==
    \A i \in 1..Len(nodes) :
        BorrowOfDeref(i)
            => IF is_stable_auto_deref_position(nodes[i])
               THEN \E k \in FindingsOn(i) : findings[k].lint = EXPLICIT_AUTO_DEREF
               ELSE FindingsOn(i) = {}

(***************************************************************************)
(* C2 (amended): for a borrow directly around a dereference of a value     *)
(* that is not a reference, with d implicit dereferences recorded and r    *)
(* layers required: if d < r the pair yields exactly one finding, an       *)
(* explicit auto-deref one, when the position is stable and no finding     *)
(* when it is unstable; if d >= r it yields exactly one finding, a         *)
(* needless-borrow one on the borrow, whether the position is stable or    *)
(* not.                                                                    *)
(***************************************************************************)
C2_ByCounts ==
    \A i \in 1..Len(nodes) :
        BorrowOfDeref(i)
            => IF ImplicitDerefs(nodes[i]) >= RequiredRefs(nodes[i])
               THEN /\ Cardinality(FindingsOn(i)) = 1
                    /\ FindingsOn(i) = FindingsAt(NEEDLESS_BORROW, i)
               ELSE IF is_stable_auto_deref_position(nodes[i])
                    THEN /\ Cardinality(FindingsOn(i)) = 1
                         /\ \A k \in FindingsOn(i) :
                                findings[k].lint = EXPLICIT_AUTO_DEREF
                    ELSE FindingsOn(i) = {}

\* a stable position with fewer implicit dereferences than required layers,
\* reported as an explicit auto-deref
C2_Witness ==
    \E i \in 1..Len(nodes) :
        /\ BorrowOfDeref(i)
        /\ is_stable_auto_deref_position(nodes[i])
        /\ ImplicitDerefs(nodes[i]) < RequiredRefs(nodes[i])
        /\ \E k \in FindingsOn(i) : findings[k].lint = EXPLICIT_AUTO_DEREF

(***************************************************************************)
(* C8: for the borrow `&y` of a reference y: &i32 passed to a parameter of *)
(* type &i32 (two implicit dereferences and a re-borrow are recorded on    *)
(* the argument), broken by the path y, exactly one finding is placed on   *)
(* `&y`; it is a needless-borrow finding and its single edit replaces `&y` *)
(* with exactly the text of y.                                             *)
(***************************************************************************)
NeedlessArgBorrow(i) ==
    /\ ChainStart(i)
    /\ nodes[i].parent.node = "Expr" /\ nodes[i].parent.kind = "Call"
    /\ ~nodes[i].parent.first /\ ~nodes[i].parent.expn
    /\ nodes[i].ty = Ty(<<"Not", "Not">>, "Int")
    /\ nodes[i].adjs = <<Deref, DerefToValue, BorrowNot>>
    /\ i + 1 <= Len(nodes)
    /\ nodes[i + 1].kind = "Path" /\ ~nodes[i + 1].expn

C8_NeedlessBorrowOfArgument ==
    \A i \in 1..Len(nodes) :
        NeedlessArgBorrow(i)
            => /\ Cardinality(FindingsOn(i)) = 1
               /\ \A k \in FindingsOn(i) :
                    /\ findings[k].lint = NEEDLESS_BORROW
                    /\ findings[k].spans = <<ExprSpan(i)>>
                    /\ findings[k].edits =
                         <<Edit(ExprSpan(i), Text("", 0, FALSE, ExprSpan(i + 1)))>>

C8_Witness ==
    \E i \in 1..Len(nodes) :
        /\ NeedlessArgBorrow(i)
        /\ nodes[i].usage = UsageArgStable
        /\ FindingsAt(NEEDLESS_BORROW, i) # {}

(***************************************************************************)
(* Chains of deref calls.                                                  *)
(***************************************************************************)
\* node j was visited, is written in the source and calls deref or deref_mut
IsDerefCall(j) ==
    j <= Len(nodes) /\ ~nodes[j].expn /\ try_parse_ref_op(nodes[j]).op = "Method"

\* node i is a deref call that opens a chain: no state is open when it is
\* visited, the lint is not allowed there and the position is a linted one
MethodChainStart(i) ==
    /\ IsDerefCall(i) /\ nodes[i].parent.hir_id = 0
    /\ ~nodes[i].allowed /\ is_linted_explicit_deref_position(nodes[i].parent)

\* nodes i .. i+k-1 are k nested deref calls, each with the same pointee type
\* in its result and in its argument, and node i+k breaks the chain
SameTypeRun(i, k) ==
    /\ \A j \in i..(i + k - 1) :
            IsDerefCall(j) /\ deref_method_same_type(nodes[j].ty, nodes[j].sub_ty)
    /\ i + k <= Len(nodes) /\ ~IsDerefCall(i + k)

Prefix(f) == f.edits[1].text.addr_of
Stars(f) == f.edits[1].text.stars

(***************************************************************************)
(* C4 (as stated): for every chain of k >= 1 deref calls in which every    *)
(* call has the same pointee type in its result and in its argument, the   *)
(* rewrite reported at finalization has exactly one leading `&*` pair,     *)
(* whatever k and the mutability of the receiver reference are.            *)
(***************************************************************************)
C4_Original ==
    \A i \in 1..Len(nodes) : \A k \in 1..MaxNodes :
        (MethodChainStart(i) /\ SameTypeRun(i, k))
            => \E n \in FindingsAt(EXPLICIT_DEREF_METHODS, i) :
                    Prefix(findings[n]) = "&*" /\ Stars(findings[n]) = 0

(***************************************************************************)
(* C4 (amended): for every chain of k >= 1 deref calls in which every call *)
(* has the same pointee type in its result and in its argument, exactly    *)
(* one rewrite is reported and it has no star besides its prefix, whatever *)
(* k is.  When the innermost call is a method call the prefix is `&*` if   *)
(* the outermost call is deref and the innermost receiver is a mutable     *)
(* reference, and is empty otherwise; when the innermost call is written   *)
(* in path form the chain is broken by the callee path and the prefix is   *)
(* `&` (`&mut ` for deref_mut).                                            *)
(***************************************************************************)
C4_PrefixByMutability ==
    \A i \in 1..Len(nodes) : \A k \in 1..MaxNodes :
        (MethodChainStart(i) /\ SameTypeRun(i, k))
            => LET last == nodes[i + k - 1]
                   target_mut == try_parse_ref_op(nodes[i]).mutbl
               IN  /\ Cardinality(FindingsAt(EXPLICIT_DEREF_METHODS, i)) = 1
                   /\ \A n \in FindingsAt(EXPLICIT_DEREF_METHODS, i) :
                        /\ Stars(findings[n]) = 0
                        /\ Replacement(findings[n]) = ExprSpan(i + k)
                        /\ Prefix(findings[n]) =
                             IF last.kind = "Call"
                             THEN IF target_mut = "Mut" THEN "&mut " ELSE "&"
                             ELSE IF target_mut = "Not" /\ last.sub_ty.refs[1] = "Mut"
                                  THEN "&*" ELSE ""

\* two nested method calls of deref on a mutable reference, rewritten with `&*`
C4_Witness ==
    \E i \in 1..Len(nodes) :
        /\ MethodChainStart(i) /\ SameTypeRun(i, 2)
        /\ nodes[i + 1].kind = "MethodCall"
        /\ \E n \in FindingsAt(EXPLICIT_DEREF_METHODS, i) :
                Prefix(findings[n]) = "&*" /\ Stars(findings[n]) = 0

(***************************************************************************)
(* C7: for `a.deref()` with a: &mut String initializing `let b: &str` (the *)
(* call resolves to the implementation for &mut String and has type        *)
(* &String), broken by the path a, exactly one finding is placed on the    *)
(* call; it is an explicit-deref-method finding with the message of deref  *)
(* and its replacement is `&*` followed by the text of a, with no further  *)
(* star and no parentheses.                                                *)
(***************************************************************************)
DerefOfMutRef(i) ==
    /\ MethodChainStart(i)
    /\ nodes[i].kind = "MethodCall" /\ nodes[i].res = "deref"
    /\ nodes[i].parent.node = "Local"
    /\ nodes[i].ty = Ty(<<"Not">>, "Adt") /\ nodes[i].sub_ty = Ty(<<"Mut">>, "Adt")
    /\ i + 1 <= Len(nodes)
    /\ nodes[i + 1].kind = "Path" /\ ~nodes[i + 1].expn

C7_DerefOfMutRef ==
    \A i \in 1..Len(nodes) :
        DerefOfMutRef(i)
            => /\ Cardinality(FindingsOn(i)) = 1
               /\ \A n \in FindingsOn(i) :
                    /\ findings[n].lint = EXPLICIT_DEREF_METHODS
                    /\ findings[n].msg = "explicit deref method call"
                    /\ findings[n].spans = <<ExprSpan(i)>>
                    /\ findings[n].edits =
                         <<Edit(ExprSpan(i), Text("&*", 0, FALSE, ExprSpan(i + 1)))>>

C7_Witness ==
    \E i \in 1..Len(nodes) :
        /\ DerefOfMutRef(i)
        /\ \E n \in FindingsAt(EXPLICIT_DEREF_METHODS, i) : Prefix(findings[n]) = "&*"

(***************************************************************************)
(* The tracker of by-reference bindings.                                   *)
(***************************************************************************)
pat_msg == "this pattern creates a reference to a reference"

\* the entries of the table that are not tombstoned, in insertion order
Live(locals) == SelectSeq(locals, LAMBDA en : en.pat.some)

\* the findings reported on patterns
PatFindings == {k \in 1..Len(findings) : findings[k].msg = pat_msg}

\* a usage of the binding needed a borrow: one of its edits prefixes `&`
NeedsBorrow(edits) == \E j \in 1..Len(edits) : edits[j].text.addr_of = "&"

\* this step is a call of check_body_post for the tracked body / for another body
Completes == Len(closed') = Len(closed) + 1
CompletesTracked == Completes /\ current_body = Some(closed'[Len(closed')].body)
CompletesOther == Completes /\ current_body # Some(closed'[Len(closed')].body)

(***************************************************************************)
(* C3 (as stated): for a by-reference binding to an immutable reference    *)
(* introduced by an or-pattern with two arms of which one lies in          *)
(* macro-generated code, whichever arm check_pat visits first, no finding  *)
(* is ever reported on either arm.                                         *)
(***************************************************************************)
TwoArms(a) ==
    /\ a + 1 <= Len(pats)
    /\ pats[a].kind = "Binding" /\ pats[a].ann = "Ref"
    /\ pats[a + 1].kind = "Binding" /\ pats[a + 1].ann = "Ref"
    /\ pats[a].id = pats[a + 1].id
    /\ \A c \in 1..Len(pats) : pats[c].id = pats[a].id => c \in {a, a + 1}
    /\ is_ref(pats[a].ty) /\ is_ref(Pointee(pats[a].ty))
    /\ Pointee(pats[a].ty).refs[1] = "Not"

OnArm(f, a) == \E j \in 1..Len(f.spans) : f.spans[j] = PatSpan(a)

C3_MacroArmDisqualifies ==
    \A a \in 1..Len(pats) :
        (TwoArms(a) /\ (pats[a].expn \/ pats[a + 1].expn))
            => \A k \in 1..Len(findings) :
                    ~OnArm(findings[k], a) /\ ~OnArm(findings[k], a + 1)

(***************************************************************************)
(* C6: when check_body_post is called for the tracked body, every entry of *)
(* the table that is not tombstoned is reported as exactly one finding, in *)
(* insertion order, carrying every recorded edit and every pattern span;   *)
(* the finding is a needless-borrow one if and only if no usage flipped    *)
(* always_deref, that is if and only if no edit prefixes a borrow, and is  *)
(* a ref-binding-to-reference one otherwise; the table is left empty, and  *)
(* nothing is tracked any more once every body has completed.              *)
(***************************************************************************)
C6_Flush ==
    [][/\ CompletesTracked =>
            LET live == Live(ref_locals) IN
            /\ Len(findings') = Len(findings) + Len(live)
            /\ SubSeq(findings', 1, Len(findings)) = findings
            /\ \A j \in 1..Len(live) :
                LET f == findings'[Len(findings) + j]
                    pat == live[j].pat
                IN  /\ f.edits = pat.replacements
                    /\ f.spans = pat.spans
                    /\ f.hir_id = Some(pat.hir_id)
                    /\ f.msg = pat_msg
                    /\ pat.always_deref <=> ~NeedsBorrow(pat.replacements)
                    /\ f.lint = IF NeedsBorrow(pat.replacements)
                                THEN REF_BINDING_TO_REFERENCE ELSE NEEDLESS_BORROW
            /\ ref_locals' = <<>>
       /\ bodies' = <<>> => ref_locals' = <<>>
      ]_vars

\* a binding whose use `*x` is dereferenced was reported as a needless borrow
\* on its pattern, with the edit that removes the dereference
C6_Witness ==
    \E k \in PatFindings :
        /\ findings[k].lint = NEEDLESS_BORROW
        /\ findings[k].spans[1][1] = "pat"
        /\ \E j \in 1..Len(findings[k].edits) : \E i \in 1..Len(nodes) :
                /\ findings[k].edits[j].span = ExprSpan(i)
                /\ nodes[i].kind = "UnaryDeref"
                /\ findings[k].edits[j].text = Text("", 0, FALSE, ExprSpan(i + 1))

(***************************************************************************)
(* C10: the table is flushed only by the call of check_body_post for the   *)
(* body in which the first tracked binding was introduced.  A call for any *)
(* other body (an inner body that completes first) reports nothing and     *)
(* leaves ref_locals and current_body unchanged; a finding on a pattern is *)
(* only reported by the call for the tracked body; the tracked body is the *)
(* body enclosing the pattern that makes the table non-empty and does not  *)
(* change while the table is non-empty.                                    *)
(***************************************************************************)
C10_FlushOnlyAtTrackedBody ==
    [][/\ CompletesOther =>
            /\ findings' = findings
            /\ ref_locals' = ref_locals
            /\ current_body' = current_body
       /\ (\E k \in 1..Len(findings') : k > Len(findings) /\ findings'[k].msg = pat_msg)
            => CompletesTracked
       /\ (ref_locals = <<>> /\ ref_locals' # <<>>) => current_body' = enclosing_body
       /\ (ref_locals # <<>> /\ ref_locals' # <<>>) => current_body' = current_body
      ]_vars

\* an inner body completed while a binding of the outer body was tracked, and
\* nothing was reported or dropped
C10_Witness ==
    /\ closed # <<>> /\ bodies # <<>>
    /\ LET c == closed[Len(closed)] IN
        /\ c.current_body = Some(bodies[Len(bodies)])
        /\ c.body # bodies[Len(bodies)]
        /\ Len(Live(c.ref_locals)) > 0
        /\ ref_locals = c.ref_locals
        /\ current_body = c.current_body
    /\ PatFindings = {}

(***************************************************************************)
(* Finalization of a chain.                                                *)
(***************************************************************************)
\* this step is a call of check_expr, for the expression Visited
Visits == Len(nodes') = Len(nodes) + 1
Visited == nodes'[Len(nodes')]

\* the expression does not extend a chain in state Borrow or Reborrow: it is
\* macro-generated, is no reference operation, or is one other than a dereference
BreaksBorrow(e) == e.expn \/ try_parse_ref_op(e).op # "Deref"

NewFindings == {k \in 1..Len(findings') : k > Len(findings)}

(***************************************************************************)
(* C9: a chain finalized while its state is Borrow or Reborrow emits no    *)
(* finding and leaves no state open, whether it is broken by an expression *)
(* that is no reference operation, by a macro-generated expression or by a *)
(* borrow or a deref call; and an explicit auto-deref finding is emitted   *)
(* only by the finalization of a chain whose state is ExplicitDeref.       *)
(***************************************************************************)
C9_BorrowEmitsNothing ==
    [][Visits =>
        /\ (state.kind \in {"Borrow", "Reborrow"} /\ BreaksBorrow(Visited))
                => (findings' = findings /\ state' = NoState)
        /\ (\E k \in NewFindings : findings'[k].lint = EXPLICIT_AUTO_DEREF)
                => state.kind = "ExplicitDeref"
      ]_vars

\* a borrow in a stable position around a dereference of a reference was
\* finalized by a deref call, and nothing was reported
C9_Witness ==
    \E i \in 1..Len(nodes) :
        /\ ChainStart(i)
        /\ ImplicitDerefs(nodes[i]) < RequiredRefs(nodes[i])
        /\ is_stable_auto_deref_position(nodes[i])
        /\ IsDeref(i + 1) /\ is_ref(nodes[i + 1].sub_ty)
        /\ IsDerefCall(i + 2)
        /\ Len(nodes) = i + 2
        /\ state = NoState
        /\ findings = <<>>

(***************************************************************************)
(* Ownership of the open state.                                            *)
(***************************************************************************)
\* expression e is the operand of the expression visited last (not the callee
\* path of a call)
OperandOfLast(e) ==
    nodes # <<>> /\ e.parent.hir_id = Len(nodes) /\ ~IsCallee(e)

\* the open state, if any, belongs to a chain of visited expressions each of
\* which is the operand of the one before, and the visitor is about to visit
\* the operand of the last of them
OwnedChain ==
    state.kind # None =>
        /\ state.hir_id \in 1..Len(nodes)
        /\ state.span = state.hir_id
        /\ \A j \in (state.hir_id + 1)..Len(nodes) :
                nodes[j].parent.hir_id = j - 1 /\ ~IsCallee(nodes[j])
        /\ \A j \in state.hir_id..Len(nodes) :
                ~nodes[j].expn /\ try_parse_ref_op(nodes[j]) # NoRefOp
        /\ Pending = Len(nodes)

\* this step enters a body
Enters == Len(bodies') = Len(bodies) + 1

(***************************************************************************)
(* C11: every chain state opened during the traversal of a body is         *)
(* finalized no later than by the visit of the first expression that is    *)
(* not the next operand of the chain: an open state always belongs to a    *)
(* run of visited reference operations each of which is the operand of the *)
(* one before, a visit that leaves a state open either opens it at the     *)
(* visited expression or continues the chain with its next operand, a      *)
(* visit of any other expression (the callee path of a call included)      *)
(* leaves no state open, and no state is open when a body is entered or    *)
(* when its traversal completes.                                           *)
(***************************************************************************)
C11_ChainOwnsItsOperands ==
    [][/\ OwnedChain'
       /\ (Visits /\ state'.kind # None) =>
            IF state.kind = None THEN state'.hir_id = Visited.hir_id
            ELSE OperandOfLast(Visited) /\ state'.hir_id = state.hir_id
       /\ (Visits /\ state.kind # None /\ ~OperandOfLast(Visited)) => state' = NoState
       /\ Completes => (state = NoState /\ state' = NoState)
       /\ Enters => (state = NoState /\ state' = NoState)
      ]_vars

\* a chain opened by a deref call in path form was finalized by the visit of
\* the callee path, the argument was visited and the body has completed
C11_Witness ==
    /\ Len(nodes) >= 3
    /\ IsDerefCall(1) /\ nodes[1].kind = "Call" /\ IsCallee(nodes[2])
    /\ FindingsAt(EXPLICIT_DEREF_METHODS, 1) # {}
    /\ closed # <<>>
    /\ state = NoState

(***************************************************************************)
(* Soft failure of the lookup of the implicit coercions.                   *)
(***************************************************************************)
\* the walk of find_adjustments over the frames meets, before any recorded
\* coercion, a block with no enclosing expression or a break whose target
\* cannot be resolved
RECURSIVE FailsSoftlyFrom(_, _, _)
FailsSoftlyFrom(prev_adjs, frames, i) ==
    IF prev_adjs # <<>> THEN FALSE
    ELSE IF i > Len(frames) THEN FALSE
    ELSE IF frames[i].node \in {"Block", "Break"}
         THEN IF frames[i].reaches_expr
              THEN FailsSoftlyFrom(frames[i].adjs, frames, i + 1)
              ELSE TRUE
         ELSE FALSE

\* node i is a borrow that starts a chain and whose lookup fails softly
SoftFailure(i) == ChainStart(i) /\ FailsSoftlyFrom(nodes[i].adjs, nodes[i].encl, 1)

(***************************************************************************)
(* C12 (as stated): when the lookup of the implicit coercions of a borrow  *)
(* fails softly, the chain starting at that borrow is aborted: no state is *)
(* open after the visit of the borrow and no finding of any category is    *)
(* ever placed on the chain, whatever expressions follow.                  *)
(***************************************************************************)
C12_Original ==
    \A i \in 1..Len(nodes) :
        SoftFailure(i)
            => /\ FindingsOn(i) = {}
               /\ Len(nodes) = i => state = NoState

(***************************************************************************)
(* C12 (amended): a soft failure of the lookup is treated exactly like a   *)
(* borrow on which no coercion is recorded.  No DerefedBorrow state opens  *)
(* and no needless-borrow finding is ever placed on the chain; but the     *)
(* stability check still runs: in a stable auto-deref position the borrow  *)
(* opens the state Borrow, and a following dereference of a value that is  *)
(* not a reference is reported as exactly one explicit auto-deref finding; *)
(* in an unstable position no state opens and no finding is placed on the  *)
(* chain.                                                                  *)
(***************************************************************************)
C12_SoftFailureIsNoCoercion ==
    \A i \in 1..Len(nodes) :
        SoftFailure(i)
            => /\ find_adjustments(nodes[i]) = <<>>
               /\ Len(nodes) = i =>
                     state = IF is_stable_auto_deref_position(nodes[i])
                             THEN Borrow(i, i) ELSE NoState
               /\ \A k \in FindingsOn(i) :
                     /\ findings[k].lint = EXPLICIT_AUTO_DEREF
                     /\ is_stable_auto_deref_position(nodes[i])
               /\ BorrowOfDeref(i) =>
                     Cardinality(FindingsOn(i)) =
                        IF is_stable_auto_deref_position(nodes[i]) THEN 1 ELSE 0

\* a borrow in the trailing position of a block with no enclosing expression,
\* under a `let` with a written type, around a dereference of a value that is
\* not a reference: the pair was reported as an explicit auto-deref
C12_Witness ==
    \E i \in 1..Len(nodes) :
        /\ SoftFailure(i) /\ BorrowOfDeref(i)
        /\ nodes[i].encl[1].node = "Block"
        /\ is_stable_auto_deref_position(nodes[i])
        /\ \E k \in FindingsOn(i) : findings[k].lint = EXPLICIT_AUTO_DEREF

(***************************************************************************)
(* Disqualified bindings.                                                  *)
(***************************************************************************)
\* the patterns visited so far that introduce the binding id
ArmsOf(id) == {p \in 1..Len(pats') : pats'[p].kind = "Binding" /\ pats'[p].id = id}

(***************************************************************************)
(* C13: once the table entry of a binding is the tombstone, no call of     *)
(* check_pat or check_expr for a later occurrence or usage of the binding  *)
(* changes the entry: it stays the tombstone, at its place in the table,   *)
(* until the call of check_body_post for the tracked body drains the       *)
(* table; and no step, that call included, emits a finding placed on a     *)
(* pattern that introduces the binding.                                    *)
(***************************************************************************)
C13_TombstoneIsFinal ==
    [][\A i \in 1..Len(ref_locals) :
          ~ref_locals[i].pat.some =>
            /\ \/ CompletesTracked /\ ref_locals' = <<>>
               \/ Len(ref_locals') >= i /\ ref_locals'[i] = ref_locals[i]
            /\ \A k \in NewFindings : \A p \in ArmsOf(ref_locals[i].id) :
                    ~OnArm(findings'[k], p)
      ]_vars

\* a binding introduced by three arms, the second of which is macro-generated,
\* was disqualified by the second arm; the third arm and a usage followed, the
\* tracked body completed with the tombstone in the table and nothing was
\* reported
C13_Witness ==
    /\ Len(pats) = 3
    /\ \A p \in 1..3 : pats[p].kind = "Binding" /\ pats[p].id = 1
    /\ ~pats[1].expn /\ pats[2].expn /\ ~pats[3].expn
    /\ \E u \in 1..Len(nodes) : nodes[u].local = Some(1)
    /\ \E c \in 1..Len(closed) :
            /\ closed[c].current_body = Some(closed[c].body)
            /\ closed[c].ref_locals = <<Entry(1, Tombstone)>>
    /\ findings = <<>>

(***************************************************************************)
(* A borrow that breaks a chain of absorbed borrows.                       *)
(***************************************************************************)
\* this step is the visit of a written borrow while the open state is
\* DerefedBorrow with no borrow left to absorb
BorrowBreaksDerefedBorrow ==
    /\ Visits
    /\ state.kind = "DerefedBorrow" /\ state.count = 0
    /\ ~Visited.expn /\ Visited.kind = "AddrOf"

(***************************************************************************)
(* C14 (as stated): when the open state is DerefedBorrow with nothing left *)
(* to absorb and the next expression is a borrow, the open state is        *)
(* finalized and reported against that borrow, and the borrow is then      *)
(* processed as a chain start: the state left by the visit is the state    *)
(* the borrow opens from no open state.                                    *)
(***************************************************************************)
C14_Original ==
    [][BorrowBreaksDerefedBorrow =>
        /\ findings' = findings \o report(Visited, state)
        /\ state' = open_AddrOf(Visited)
      ]_vars

(***************************************************************************)
(* C14 (amended): when the open state is DerefedBorrow with nothing left   *)
(* to absorb and the next expression is a borrow, the open state is        *)
(* finalized and reported against that borrow: exactly one finding is      *)
(* emitted, a needless-borrow one placed on the outermost borrow of the    *)
(* chain, whose replacement is the text of the breaking borrow.  The       *)
(* breaking borrow is not processed as a chain start: no state is open     *)
(* after its visit, even if it would open a chain when visited with no     *)
(* open state.                                                             *)
(***************************************************************************)
C14_BreakingBorrowOpensNothing ==
    [][BorrowBreaksDerefedBorrow =>
        /\ Len(findings') = Len(findings) + 1
        /\ SubSeq(findings', 1, Len(findings)) = findings
        /\ LET f == findings'[Len(findings')] IN
            /\ f.lint = NEEDLESS_BORROW
            /\ f.msg = state.msg
            /\ f.spans = <<ExprSpan(state.hir_id)>>
            /\ Len(f.edits) = 1
            /\ f.edits[1].span = ExprSpan(state.hir_id)
            /\ Replacement(f) = ExprSpan(Visited.hir_id)
        /\ state' = NoState
      ]_vars

\* a chain of one borrow with nothing left to absorb was broken by a nested
\* borrow that would itself open a chain; it was reported and nothing is open
C14_Witness ==
    \E i \in 1..Len(nodes) :
        /\ ChainStart(i)
        /\ ImplicitDerefs(nodes[i]) = RequiredRefs(nodes[i])
        /\ IsBorrow(i + 1) /\ Len(nodes) = i + 1
        /\ open_AddrOf(nodes[i + 1]) # NoState
        /\ state = NoState
        /\ \E k \in FindingsAt(NEEDLESS_BORROW, i) :
                Replacement(findings[k]) = ExprSpan(i + 1)

(***************************************************************************)
(* C15: when a deref call is written in path form, the visit of its callee *)
(* path is skipped by check_expr: it leaves the open DerefMethod state as  *)
(* it is and emits nothing, so that the chain continues at the argument of *)
(* the call.                                                               *)
(***************************************************************************)
C15_CalleePathIsSkipped ==
    [][(Visits /\ state.kind = "DerefMethod" /\ IsCallee(Visited))
            => (state' = state /\ findings' = findings)
      ]_vars

(***************************************************************************)
(* The number of reference layers required at a chain start.               *)
(***************************************************************************)
\* the coercion that follows the run of implicit dereferences, if any
NextAdjust(e) == count_derefs(find_adjustments(e), 1, 0).next_adjust

\* the position itself triggers an implicit borrow: the callee of a call or
\* the base of a field access
TriggersBorrow(p) ==
    p.node = "Expr" /\ (p.kind = "Field" \/ (p.kind = "Call" /\ p.first))

\* the re-borrow insertion points as stated: an assignment, the initializer of
\* a local binding, an argument of a call or of a method call
StatedReborrowPoint(p) ==
    \/ p.node = "Local"
    \/ p.node = "Expr" /\ p.kind \in {"Assign", "Call", "MethodCall"}

\* the re-borrow insertion points of the pass: the initializer of a local
\* binding, an operand (receiver included) of a call or of a method call
ReborrowPoint(p) ==
    \/ p.node = "Local"
    \/ p.node = "Expr" /\ p.kind \in {"Call", "MethodCall"}

\* the required layers, given which positions are re-borrow insertion points
Layers(e, point) ==
    IF TriggersBorrow(e.parent) THEN 1
    ELSE IF NextAdjust(e).kind = "Borrow" /\ NextAdjust(e).mutbl = "Mut" /\ ~point
         THEN 3
         ELSE 2

\* the state a chain start with d implicit dereferences opens when r layers
\* are required: DerefedBorrow with the excess, or no DerefedBorrow
OpensWith(i, r) ==
    LET d == ImplicitDerefs(nodes[i]) IN
    IF d >= r
    THEN state.kind = "DerefedBorrow" /\ state.count = d - r /\ state.hir_id = i
    ELSE state.kind # "DerefedBorrow"

(***************************************************************************)
(* C16 (as stated): the number of layers required at a chain start is 1    *)
(* when the position itself triggers an implicit borrow; otherwise 3 when  *)
(* the run of implicit dereferences is followed by an implicit mutable     *)
(* re-borrow at a position that is no re-borrow insertion point            *)
(* (assignment, local-binding initializer, call or method-call argument);  *)
(* otherwise 2.  The state opened at the chain start is the one this       *)
(* number gives.                                                           *)
(***************************************************************************)
C16_Original ==
    \A i \in 1..Len(nodes) :
        ChainStart(i)
            => LET r == Layers(nodes[i], StatedReborrowPoint(nodes[i].parent)) IN
               /\ RequiredRefs(nodes[i]) = r
               /\ Len(nodes) = i => OpensWith(i, r)

(***************************************************************************)
(* C16 (amended): the number of layers required at a chain start is 1 when *)
(* the position itself triggers an implicit borrow (callee of a call, base *)
(* of a field access); otherwise 3 when the run of implicit dereferences   *)
(* is followed by an implicit mutable re-borrow and the parent is neither  *)
(* a local binding nor a call nor a method call (an assignment is no       *)
(* re-borrow insertion point: it requires 3); otherwise 2, which includes  *)
(* every run followed by an immutable re-borrow or by no borrow.  The      *)
(* state opened at the chain start is the one this number gives.           *)
(***************************************************************************)
C16_RequiredLayers ==
    \A i \in 1..Len(nodes) :
        ChainStart(i)
            => LET r == Layers(nodes[i], ReborrowPoint(nodes[i].parent)) IN
               /\ RequiredRefs(nodes[i]) = r
               /\ Len(nodes) = i => OpensWith(i, r)

\* a borrow assigned to a place, with three implicit dereferences followed by
\* a mutable re-borrow: three layers are required and nothing is left over
C16_Witness ==
    \E i \in 1..Len(nodes) :
        /\ ChainStart(i) /\ Len(nodes) = i
        /\ nodes[i].parent.node = "Expr" /\ nodes[i].parent.kind = "Assign"
        /\ NextAdjust(nodes[i]) = BorrowMut
        /\ ImplicitDerefs(nodes[i]) = 3
        /\ state.kind = "DerefedBorrow" /\ state.count = 0

(***************************************************************************)
(* C17: from no open state, a written borrow opens DerefedBorrow if and    *)
(* only if the number d of implicit dereferences is at least the number r  *)
(* of required layers, and then d - r borrows remain to be absorbed; it    *)
(* opens Borrow if and only if d < r and the position is a stable          *)
(* auto-deref position; in every other case no state is open after the     *)
(* visit.  The opened state is anchored at the borrow, nothing is emitted, *)
(* and whether the position is stable has no influence when d >= r.        *)
(***************************************************************************)
C17_OpeningOfBorrow ==
    [][(Visits /\ state.kind = None /\ ~Visited.expn /\ Visited.kind = "AddrOf")
        => LET d == ImplicitDerefs(Visited)
               r == Layers(Visited, ReborrowPoint(Visited.parent))
               stable == is_stable_auto_deref_position(Visited)
           IN  /\ state'.kind = "DerefedBorrow" <=> d >= r
               /\ state'.kind = "Borrow" <=> (d < r /\ stable)
               /\ state'.kind = None <=> (d < r /\ ~stable)
               /\ state'.kind = "DerefedBorrow" => state'.count = d - r
               /\ state'.kind # None =>
                     (state'.hir_id = Visited.hir_id /\ state'.span = Visited.hir_id)
               /\ findings' = findings
      ]_vars

\* a borrow with more implicit dereferences than required layers opened
\* DerefedBorrow in a stable position
C17_Witness ==
    \E i \in 1..Len(nodes) :
        /\ ChainStart(i) /\ Len(nodes) = i
        /\ is_stable_auto_deref_position(nodes[i])
        /\ ImplicitDerefs(nodes[i]) > RequiredRefs(nodes[i])
        /\ state.kind = "DerefedBorrow"
        /\ state.count = ImplicitDerefs(nodes[i]) - RequiredRefs(nodes[i])

(***************************************************************************)
(* Expressions that stop a chain.                                          *)
(***************************************************************************)
\* the expression is macro-generated or is no reference operation
Stops(e) == e.expn \/ try_parse_ref_op(e) = NoRefOp

\* the nodes a finding of a chain in state st can be placed on
ChainSpans(st) ==
    IF st.kind \in {"ExplicitDeref", "Reborrow"}
    THEN {ExprSpan(st.span), ExprSpan(st.deref_span)}
    ELSE {ExprSpan(st.span)}

(***************************************************************************)
(* C18: if the expression handed to check_expr is macro-generated or fails *)
(* the classification as a reference operation, then after the call no     *)
(* state is open; at most one finding was emitted, and only if a state was *)
(* open: it is placed on the chain of that state and its replacement is    *)
(* built from the text of the expression handed over; the expression opens *)
(* no chain.  Hence no open state is ever anchored at a macro-generated    *)
(* expression.                                                             *)
(***************************************************************************)
C18_StopEmitsAtMostOne ==
    [][Visits =>
        /\ Stops(Visited) =>
            /\ state' = NoState
            /\ Len(findings') <= Len(findings) + 1
            /\ SubSeq(findings', 1, Len(findings)) = findings
            /\ \A k \in NewFindings :
                    /\ state.kind # None
                    /\ Anchor(findings'[k]) \in ChainSpans(state)
                    /\ Replacement(findings'[k]) = ExprSpan(Visited.hir_id)
        /\ state'.kind # None => ~nodes'[state'.hir_id].expn
      ]_vars

\* a chain of absorbed borrows was stopped by a macro-generated borrow: it was
\* reported with the text of that borrow and nothing is open
C18_Witness ==
    \E i \in 1..Len(nodes) :
        /\ ChainStart(i)
        /\ ImplicitDerefs(nodes[i]) >= RequiredRefs(nodes[i])
        /\ Len(nodes) = i + 1
        /\ nodes[i + 1].expn /\ nodes[i + 1].kind = "AddrOf"
        /\ state = NoState
        /\ Len(findings) = 1
        /\ Anchor(findings[1]) = ExprSpan(i)
        /\ Replacement(findings[1]) = ExprSpan(i + 1)

(***************************************************************************)
(* The positions in which a deref call is linted.                          *)
(***************************************************************************)
\* the excluded parents: a method call with the call as receiver, a call with
\* it as callee, an explicit dereference, a field access, an index, a match
\* desugared from `?` or `.await`, in the macro context of the call
ExcludedPosition(p) ==
    /\ p.node = "Expr" /\ p.same_ctxt
    /\ \/ p.kind \in {"MethodCall", "Call"} /\ p.first
       \/ p.kind \in {"UnaryDeref", "Field", "Index"}
       \/ p.kind = "Match" /\ p.src \in {"TryDesugar", "AwaitDesugar"}

\* the lint is suppressed at node a, or node a is in an excluded position
NotLinted(a) == nodes'[a].allowed \/ ExcludedPosition(nodes'[a].parent)

(***************************************************************************)
(* C19: from no open state, a written call of deref or deref_mut opens a   *)
(* DerefMethod state only if the lint is not suppressed there and its      *)
(* parent is not an excluded one; where the lint is suppressed or the      *)
(* parent is excluded, no state is open after the visit.  If the lint is   *)
(* not suppressed, a parent that is not an expression or that lies in      *)
(* another macro context qualifies: the state opens, anchored at the call. *)
(* No explicit-deref-method finding is ever placed on a call at which the  *)
(* lint is suppressed or whose parent is excluded.                         *)
(***************************************************************************)
C19_LintedPositions ==
    [][Visits =>
        /\ (state.kind = None /\ ~Visited.expn
                /\ try_parse_ref_op(Visited).op = "Method") =>
            LET p == Visited.parent IN
            /\ state'.kind \in {None, "DerefMethod"}
            /\ state'.kind = "DerefMethod" =>
                    /\ ~Visited.allowed /\ ~ExcludedPosition(p)
                    /\ state'.hir_id = Visited.hir_id
            /\ (Visited.allowed \/ ExcludedPosition(p)) => state' = NoState
            /\ (~Visited.allowed /\ (p.node # "Expr" \/ ~p.same_ctxt))
                    => state'.kind = "DerefMethod"
        /\ \A k \in NewFindings :
                findings'[k].lint = EXPLICIT_DEREF_METHODS
                    => \E a \in 1..Len(nodes) :
                            Anchor(findings'[k]) = ExprSpan(a) /\ ~NotLinted(a)
      ]_vars

\* a call of deref whose result is called was visited with no open state, and
\* so was its receiver: no state opened and nothing was reported
C19_Witness ==
    /\ Len(nodes) = 2
    /\ IsDerefCall(1) /\ nodes[1].kind = "MethodCall" /\ ~nodes[1].allowed
    /\ nodes[1].parent = ParentCallee
    /\ nodes[2].kind = "Path"
    /\ state = NoState
    /\ findings = <<>>

(***************************************************************************)
(* The counters of a chain of deref calls.                                 *)
(***************************************************************************)
\* the call at node j changes the type: its argument is no reference, or the
\* pointee types of its result and of its argument differ
ChangesType(j) ==
    \/ ~is_ref(nodes[j].sub_ty)
    \/ ~is_ref(nodes[j].ty)
    \/ Pointee(nodes[j].ty) # Pointee(nodes[j].sub_ty)

(***************************************************************************)
(* C20: while a DerefMethod state is open, its chain is the run of deref   *)
(* calls from its anchor to the expression visited last; ty_changed_count  *)
(* is the number of calls of the chain, the opening call included, whose   *)
(* argument is no reference or whose result and argument differ in their   *)
(* pointee type, so that it lies between 0 and the length k of the chain;  *)
(* target_mut is the mutability of the outermost call; is_final_ufcs says  *)
(* whether the innermost call seen so far is written in path form.         *)
(***************************************************************************)
C20_DerefMethodCounters ==
    state.kind = "DerefMethod" =>
        LET first == state.hir_id
            last == Len(nodes)
            k == last - first + 1
        IN  /\ first \in 1..last
            /\ \A j \in first..last : IsDerefCall(j)
            /\ state.ty_changed_count =
                    Cardinality({j \in first..last : ChangesType(j)})
            /\ state.ty_changed_count \in 0..k
            /\ state.target_mut = try_parse_ref_op(nodes[first]).mutbl
            /\ state.is_final_ufcs = (nodes[last].kind = "Call")

\* a chain of a call of deref around a call of deref_mut is open; one of the
\* two calls changes the type
C20_Witness ==
    /\ state.kind = "DerefMethod"
    /\ state.hir_id = 1 /\ Len(nodes) = 2
    /\ nodes[1].res = "deref" /\ nodes[2].res = "deref_mut"
    /\ state.ty_changed_count = 1
    /\ state.target_mut = "Not"
    /\ ~state.is_final_ufcs

(***************************************************************************)
(* Dereferences after a borrow.                                            *)
(***************************************************************************)
\* node i is a borrow at which the pass opens the state Borrow: no state is
\* open, fewer dereferences are implicit than layers are required, and the
\* position is stable
OpensBorrow(i) ==
    /\ ChainStart(i)
    /\ ImplicitDerefs(nodes[i]) < RequiredRefs(nodes[i])
    /\ is_stable_auto_deref_position(nodes[i])

\* nodes i+1 .. i+j are j dereferences (written in the source, of an operand
\* that is no raw pointer), each the operand of the node before, and the last
\* of them is the expression visited last
DerefRun(i, j) ==
    /\ i + j = Len(nodes)
    /\ \A k \in (i + 1)..(i + j) : IsDeref(k) /\ nodes[k].parent.hir_id = k - 1

(***************************************************************************)
(* C21: after a borrow that opens the state Borrow is followed by j >= 1   *)
(* consecutive explicit dereferences, the state is Reborrow exactly when   *)
(* j = 1 and the operand of the first dereference has a reference type,    *)
(* and is ExplicitDeref otherwise; a state ExplicitDeref is left as it is  *)
(* by a further dereference; the dereference recorded in the state is the  *)
(* first one after the borrow and the anchor is the borrow.                *)
(***************************************************************************)
C21_DerefsAfterBorrow ==
    \A i \in 1..Len(nodes) : \A j \in 1..MaxNodes :
        (OpensBorrow(i) /\ DerefRun(i, j)) =>
            state = IF j = 1 /\ is_ref(nodes[i + 1].sub_ty)
                    THEN Reborrow(i + 1, i + 1, i, i)
                    ELSE ExplicitDeref(i + 1, i + 1, i, i)

\* `&***x` in a stable position, the operand of the first dereference being a
\* reference: the state is ExplicitDeref and records the first dereference
C21_Witness ==
    /\ Len(nodes) = 4
    /\ OpensBorrow(1) /\ DerefRun(1, 3)
    /\ is_ref(nodes[2].sub_ty)
    /\ state = ExplicitDeref(2, 2, 1, 1)

(***************************************************************************)
(* Usages of a tracked binding.                                            *)
(***************************************************************************)
\* this step is a call of check_expr for a usage of a binding that is tracked
\* and not tombstoned
UsesTracked ==
    /\ Visits
    /\ Visited.local # NoId
    /\ \E i \in 1..Len(ref_locals) :
            ref_locals[i].id = Visited.local[1] /\ ref_locals[i].pat.some

\* the index of the binding used, and the table with its entry replaced
UsedIndex == CHOOSE i \in 1..Len(ref_locals) : ref_locals[i].id = Visited.local[1]
UsedPat == ref_locals[UsedIndex].pat
WithUsedPat(pat) ==
    [ref_locals EXCEPT ![UsedIndex] = [id |-> ref_locals[UsedIndex].id, pat |-> pat]]

\* the contexts of a usage
AlreadyDoubleDerefed(e) ==
    Len(e.adjs) >= 2 /\ \A k \in 1..2 : e.adjs[k].kind = "Deref"
FieldParent(e) == e.parent.node = "Expr" /\ e.parent.kind = "Field"
WrittenDerefParent(e) ==
    e.parent.node = "Expr" /\ e.parent.kind = "UnaryDeref" /\ ~e.parent.expn
OtherWrittenParent(e) ==
    /\ e.parent.node = "Expr" /\ ~e.parent.expn
    /\ e.parent.kind \notin {"Field", "UnaryDeref"}

\* the edits of a usage
ErasesDeref(e) ==
    [span |-> ExprSpan(e.parent.hir_id),
     text |-> [addr_of |-> "", stars |-> 0, paren |-> FALSE, snip |-> ExprSpan(e.hir_id)]]
PrefixesBorrow(e) ==
    [span |-> ExprSpan(e.hir_id),
     text |-> [addr_of |-> "&", stars |-> 0, paren |-> FALSE, snip |-> ExprSpan(e.hir_id)]]

(***************************************************************************)
(* C22: on a usage of a tracked binding that is not tombstoned: if the     *)
(* usage begins with two implicit dereferences or its parent is a field    *)
(* access, the table is unchanged; otherwise, if its parent is a written   *)
(* explicit dereference, one edit replacing the dereference by the usage   *)
(* is appended and always_deref is unchanged; otherwise, if its parent is  *)
(* another written expression, the binding is tombstoned when the parent   *)
(* has postfix precedence, and else one edit prefixing a borrow is         *)
(* appended and always_deref becomes false; otherwise (the parent is       *)
(* macro-generated or is no expression) a written usage gets the edit      *)
(* prefixing a borrow and always_deref becomes false, and a                *)
(* macro-generated usage tombstones the binding.                           *)
(***************************************************************************)
C22_UsageOfTrackedBinding ==
    [][UsesTracked =>
        LET e == Visited
            borrowed == [UsedPat EXCEPT !.always_deref = FALSE,
                                        !.replacements = Append(@, PrefixesBorrow(e))]
        IN  ref_locals' =
              IF AlreadyDoubleDerefed(e) \/ FieldParent(e) THEN ref_locals
              ELSE IF WrittenDerefParent(e)
                   THEN WithUsedPat([UsedPat EXCEPT
                                        !.replacements = Append(@, ErasesDeref(e))])
              ELSE IF OtherWrittenParent(e)
                   THEN IF e.parent.prec = PREC_POSTFIX THEN WithUsedPat(Tombstone)
                        ELSE WithUsedPat(borrowed)
              ELSE IF ~e.expn THEN WithUsedPat(borrowed)
              ELSE WithUsedPat(Tombstone)
      ]_vars

\* a written usage under a macro-generated parent got the edit prefixing a
\* borrow, and a usage as the argument of a written call tombstoned the other
\* binding
C22_Witness ==
    \E i, j \in 1..Len(ref_locals) : \E k, l \in 1..Len(nodes) :
        /\ ref_locals[i].pat.some /\ ~ref_locals[i].pat.always_deref
        /\ nodes[k].local = Some(ref_locals[i].id)
        /\ nodes[k].parent.node = "Expr" /\ nodes[k].parent.expn /\ ~nodes[k].expn
        /\ ref_locals[i].pat.replacements[Len(ref_locals[i].pat.replacements)]
                = PrefixesBorrow(nodes[k])
        /\ ~ref_locals[j].pat.some
        /\ nodes[l].local = Some(ref_locals[j].id)
        /\ nodes[l].parent.kind = "Call" /\ ~nodes[l].parent.expn

(***************************************************************************)
(* The bindings that are tracked.                                          *)
(***************************************************************************)
\* the occurrences of the by-reference binding id, and the first of them
Occurrences(id) ==
    {c \in 1..Len(pats) : pats[c].kind = "Binding" /\ pats[c].ann = "Ref" /\ pats[c].id = id}
FirstOccurrence(id) == CHOOSE c \in Occurrences(id) : \A d \in Occurrences(id) : c <= d

\* the type bound is a reference to an immutable reference
RefToImmutableRef(ty) ==
    Len(ty.refs) >= 2 /\ ty.refs[2] = "Not"

\* the binding has a RefPat in the table / a finding was reported on one of
\* its occurrences
HasRefPat(id) ==
    \E i \in 1..Len(ref_locals) : ref_locals[i].id = id /\ ref_locals[i].pat.some
ReportedOn(id) ==
    \E k \in PatFindings : \E c \in Occurrences(id) : OnArm(findings[k], c)

\* a binding whose type is no reference to an immutable reference is never
\* tracked and never reported
TypeDecides ==
    \A id \in 1..MaxBindings :
        (Occurrences(id) # {} /\ ~RefToImmutableRef(pats[FirstOccurrence(id)].ty))
            => (~HasRefPat(id) /\ ~ReportedOn(id))

\* a binding whose first occurrence is macro-generated is never tracked and
\* never reported
FirstOccurrenceDecides ==
    \A id \in 1..MaxBindings :
        (Occurrences(id) # {} /\ pats[FirstOccurrence(id)].expn)
            => (~HasRefPat(id) /\ ~ReportedOn(id))

(***************************************************************************)
(* C23 (as stated): a by-reference binding is tracked only if, at its      *)
(* first occurrence, the pattern is not macro-generated and its bound type *)
(* is a reference to an immutable reference; a binding whose inner         *)
(* reference is mutable, or whose bound type is not a reference to a       *)
(* reference, never gets a RefPat and never produces a finding on its      *)
(* pattern, whatever its later occurrences and usages are.                 *)
(***************************************************************************)
C23_TrackedOnlyIfFirstQualifies == FirstOccurrenceDecides /\ TypeDecides

(***************************************************************************)
(* Stability of a function-argument position.                              *)
(***************************************************************************)
\* the pass asks whether the position of the borrow e is stable: e is written
\* in the source and fewer dereferences are implicit than layers are required
StabilityAsked(e) ==
    ~e.expn /\ e.kind = "AddrOf" /\ ImplicitDerefs(e) < RequiredRefs(e)

\* e is an argument of a call or of a method call whose parameter type is
\* taken from the signature of the callee
ArgOfSignature(e) ==
    e.usage.node \in {"Call", "MethodCall"} /\ e.usage.found /\ e.usage.hir_ty = NoHirTy

\* the kinds of type the claim lists as stable and as unstable
StatedStable ==
    {"Bool", "Char", "Int", "Uint", "Float", "Array", "Slice", "RawPtr", "FnDef",
     "FnPtr", "Closure", "Generator", "Never", "Tuple", "Projection"}
StatedUnstable == {"Infer", "Param", "Opaque", "Dynamic", "Placeholder"}

\* the kinds of type that are stable under exactly one reference layer: the
\* listed ones, str, foreign types, generator witnesses and the ADTs without
\* type parameters or placeholders
StableUnderOneLayer == StatedStable \cup {"Foreign", "Str", "GeneratorWitness", "Adt"}

(***************************************************************************)
(* C24 (as stated): a function-argument position is stable whenever the    *)
(* declared parameter type is a primitive scalar, array, slice, raw        *)
(* pointer, function item or pointer, closure, generator, never type,      *)
(* tuple, reference or associated-type projection, whatever the number of  *)
(* reference layers of the parameter type, and is unstable whenever it is  *)
(* an inferred, generic, opaque, dynamic or placeholder type.              *)
(***************************************************************************)
C24_Original ==
    [][(Visits /\ state = NoState /\ StabilityAsked(Visited) /\ ArgOfSignature(Visited))
            => /\ Visited.usage.ty.base \in StatedStable => state'.kind = "Borrow"
               /\ Visited.usage.ty.base \in StatedUnstable => state' = NoState
      ]_vars

(***************************************************************************)
(* C24 (amended): a function-argument position is stable exactly when the  *)
(* parameter type has exactly one reference layer and the type under it is *)
(* a primitive scalar, str, array, slice, raw pointer, function item or    *)
(* pointer, closure, generator, generator witness, never type, tuple,      *)
(* foreign type, associated-type projection or an ADT without type         *)
(* parameters and placeholders; it is unstable for every other number of   *)
(* reference layers (none, or two and more) and for an inferred, generic,  *)
(* bound, opaque, dynamic, placeholder or erroneous type under the layer.  *)
(***************************************************************************)
C24_ParamStability ==
    [][(Visits /\ state = NoState /\ StabilityAsked(Visited) /\ ArgOfSignature(Visited))
            => IF Len(Visited.usage.ty.refs) = 1
                  /\ Visited.usage.ty.base \in StableUnderOneLayer
               THEN state' = Borrow(Visited.hir_id, Visited.hir_id)
               ELSE state' = NoState
      ]_vars

\* a borrow passed for a parameter of type `&&i32` opened no state, and the
\* visitor went on to its operand
C24_Witness ==
    /\ Len(nodes) = 2
    /\ StabilityAsked(nodes[1]) /\ ArgOfSignature(nodes[1])
    /\ nodes[1].usage.ty = Ty(<<"Not", "Not">>, "Int")
    /\ nodes[2].kind = "Path"
    /\ state = NoState /\ findings = <<>>

(***************************************************************************)
(* The count of implicit dereferences.                                     *)
(***************************************************************************)
\* the lists of coercions along the walk from a borrow: its own list, then
\* that of each enclosing block expression or break target
ListsFrom(e) == <<e.adjs>> \o [i \in 1..Len(e.encl) |-> e.encl[i].adjs]

\* the walk gets to the k-th list: every list before it is empty and every
\* step before it is a block or a break that leads to an expression
GetsTo(e, k) ==
    \A i \in 1..(k - 1) :
        /\ ListsFrom(e)[i] = <<>>
        /\ e.encl[i].node \in {"Block", "Break"} /\ e.encl[i].reaches_expr

\* the first list that is not empty, the empty list if the walk finds none
FirstList(e) ==
    LET found == {k \in 1..Len(ListsFrom(e)) : GetsTo(e, k) /\ ListsFrom(e)[k] # <<>>}
    IN  IF found = {} THEN <<>>
        ELSE ListsFrom(e)[CHOOSE k \in found : \A l \in found : k <= l]

\* the number of leading dereferences of a list, up to and including the
\* first one whose target is no reference
LeadingDerefs(adjs) ==
    Cardinality({j \in 1..Len(adjs) :
                    /\ \A k \in 1..j : adjs[k].kind = "Deref"
                    /\ \A k \in 1..(j - 1) : adjs[k].target_is_ref})

\* the coercion that follows the counted dereferences, if any
FollowingAdjust(adjs) ==
    IF LeadingDerefs(adjs) < Len(adjs) THEN adjs[LeadingDerefs(adjs) + 1] ELSE NoAdjust

(***************************************************************************)
(* C25: the count of implicit dereferences computed at a borrow that       *)
(* starts a chain is the number of leading dereference coercions of the    *)
(* list, up to and including the first one whose target type is no         *)
(* reference and stopping before the first coercion that is no             *)
(* dereference; the list is that of the borrow or, when the borrow has     *)
(* none, that of the enclosing block expression or break target,           *)
(* repeatedly, the first one that is not empty.  The count decides the     *)
(* state that opens: DerefedBorrow with count minus required layers when   *)
(* the count reaches the required layers, and no DerefedBorrow otherwise.  *)
(***************************************************************************)
C25_ImplicitDerefCount ==
    [][(Visits /\ state = NoState /\ ~Visited.expn /\ Visited.kind = "AddrOf") =>
        LET e == Visited
            d == LeadingDerefs(FirstList(e))
            r == required_refs(e, d, FollowingAdjust(FirstList(e)))
        IN  IF d >= r.refs
            THEN state' = DerefedBorrow(d - r.refs, r.precedence, r.msg,
                                        e.hir_id, e.hir_id)
            ELSE state'.kind \in {"Borrow", None}
      ]_vars

\* a borrow without coercions in a block in a block whose expression has the
\* coercions deref, deref to a value, deref to a value: two are counted and
\* the state DerefedBorrow opens with no layer to spare
C25_Witness ==
    /\ Len(nodes) = 1
    /\ nodes[1].kind = "AddrOf" /\ ~nodes[1].expn
    /\ nodes[1].adjs = <<>>
    /\ Len(nodes[1].encl) = 2
    /\ nodes[1].encl[2].adjs = <<Deref, DerefToValue, DerefToValue>>
    /\ state = DerefedBorrow(0, 0, deref_msg, 1, 1)

(***************************************************************************)
(* The anchor of a chain.                                                  *)
(***************************************************************************)
\* node i can open a state of kind k: it is written in the source and is a
\* reference operation of the kind that opens k
Opener(i, k) ==
    /\ i \in 1..Len(nodes) /\ ~nodes[i].expn
    /\ try_parse_ref_op(nodes[i]).op =
            (IF k = "DerefMethod" THEN "Method" ELSE "AddrOf")

(***************************************************************************)
(* C26: while a chain is open every transition that extends it leaves the  *)
(* anchor (the span and the node identity recorded when the state opened)  *)
(* unchanged; the anchor is the expression at which the state opened, the  *)
(* outermost of the chain; every explicit-deref-method finding and every   *)
(* needless-borrow finding of a chain is placed at that expression and     *)
(* replaces it, never at the expression that broke the chain.              *)
(***************************************************************************)
C26_AnchorIsOutermost ==
    [][Visits =>
        /\ (state.kind = None /\ state'.kind # None) =>
                (state'.span = Visited.hir_id /\ state'.hir_id = Visited.hir_id)
        /\ (state.kind # None /\ state'.kind # None) =>
                (state'.span = state.span /\ state'.hir_id = state.hir_id)
        /\ \A k \in NewFindings :
                findings'[k].lint \in {EXPLICIT_DEREF_METHODS, NEEDLESS_BORROW} =>
                    /\ state.kind \in {"DerefMethod", "DerefedBorrow"}
                    /\ Opener(state.hir_id, state.kind)
                    /\ state.span = state.hir_id
                    /\ findings'[k].spans = <<ExprSpan(state.hir_id)>>
                    /\ findings'[k].edits[1].span = ExprSpan(state.hir_id)
                    /\ findings'[k].lint = NEEDLESS_BORROW =>
                            findings'[k].hir_id = Some(state.hir_id)
                    /\ state.hir_id < Visited.hir_id
                    /\ Replacement(findings'[k]) = ExprSpan(Visited.hir_id)
      ]_vars

\* `&&x` with a layer to spare: the inner borrow extended the chain, the path
\* broke it, and the finding is placed at the outer borrow
C26_Witness ==
    /\ Len(nodes) = 3
    /\ IsBorrow(1) /\ IsBorrow(2) /\ nodes[2].parent.hir_id = 1
    /\ nodes[3].kind = "Path" /\ nodes[3].parent.hir_id = 2
    /\ Len(findings) = 1
    /\ findings[1].lint = NEEDLESS_BORROW
    /\ Anchor(findings[1]) = ExprSpan(1)
    /\ Replacement(findings[1]) = ExprSpan(3)

(***************************************************************************)
(* Independence of the chain state and of the table of bindings.           *)
(***************************************************************************)
\* this step is a call of check_pat, for the pattern VisitedPat
VisitsPat == Len(pats') = Len(pats) + 1
VisitedPat == pats'[Len(pats')]

\* every entry of the table for a binding other than those of ids is kept as
\* it is and where it is, and an entry is added for a binding of ids only
OthersKept(ids) ==
    /\ Len(ref_locals') >= Len(ref_locals)
    /\ \A i \in 1..Len(ref_locals) :
            /\ ref_locals'[i].id = ref_locals[i].id
            /\ ref_locals[i].id \notin ids => ref_locals'[i] = ref_locals[i]
    /\ \A i \in (Len(ref_locals) + 1)..Len(ref_locals') : ref_locals'[i].id \in ids

\* the binding an expression uses, as a set
UsedBy(e) == IF e.local = NoId THEN {} ELSE {e.local[1]}

(***************************************************************************)
(* C27: a call of check_pat changes at most the table entry of the binding *)
(* of the pattern and leaves the chain state and the findings unchanged; a *)
(* call of check_expr changes at most the table entry of the binding the   *)
(* expression uses, and none when the expression uses no binding, so that  *)
(* no transition of the chain state modifies the table; and the usage      *)
(* leaves the chain to its own transition: the state after the call and    *)
(* the findings emitted are those of the chain transition alone.           *)
(***************************************************************************)
C27_TableAndChainAreIndependent ==
    [][/\ VisitsPat =>
            /\ OthersKept({VisitedPat.id})
            /\ state' = state
            /\ findings' = findings
       /\ Visits =>
            /\ OthersKept(UsedBy(Visited))
            /\ Len(ref_locals') = Len(ref_locals)
            /\ current_body' = current_body
            /\ state' = check_expr_chain(state, Visited).state
            /\ findings' = findings \o check_expr_chain(state, Visited).out
      ]_vars

\* two bindings are tracked; the usage `&*x` of the first in a stable position
\* finalized the chain with a finding and added an edit to the first entry,
\* and the second entry is as check_pat created it
C27_Witness ==
    /\ Len(ref_locals) = 2 /\ Len(nodes) = 3
    /\ nodes[3].local = Some(ref_locals[1].id)
    /\ ref_locals[1].pat.some /\ Len(ref_locals[1].pat.replacements) = 2
    /\ ref_locals[2].pat.some /\ Len(ref_locals[2].pat.replacements) = 1
    /\ ref_locals[2].pat.always_deref
    /\ findings # <<>> /\ findings[1].lint = EXPLICIT_AUTO_DEREF
    /\ state = NoState

(***************************************************************************)
(* The finding of an explicit dereference.                                 *)
(***************************************************************************)
\* the explicit auto-deref findings this step emits
NewAutoDerefs == {k \in NewFindings : findings'[k].lint = EXPLICIT_AUTO_DEREF}

\* finding f is placed at node i and replaces exactly node i by the text of
\* node j
PlacedAt(f, i, j) ==
    /\ f.spans = <<ExprSpan(i)>>
    /\ f.hir_id = Some(i)
    /\ Len(f.edits) = 1
    /\ f.edits[1] = [span |-> ExprSpan(i),
                     text |-> [addr_of |-> "", stars |-> 0, paren |-> FALSE,
                               snip |-> ExprSpan(j)]]

(***************************************************************************)
(* C28: the finding of a chain finalized in state ExplicitDeref replaces   *)
(* the whole chain, from the outer borrow on, by the text of the           *)
(* expression that broke the chain if and only if the type of that         *)
(* expression is a reference; otherwise it is placed at the first          *)
(* dereference after the borrow and replaces only that dereference, so     *)
(* that the borrow is kept.  The chain emits exactly this one finding.     *)
(***************************************************************************)
C28_ExplicitDerefFinding ==
    [][(Visits /\ state.kind = "ExplicitDeref" /\ state'.kind # "ExplicitDeref") =>
        /\ Cardinality(NewFindings) = 1 /\ NewAutoDerefs = NewFindings
        /\ IsBorrow(state.hir_id) /\ state.span = state.hir_id
        /\ state.deref_hir_id = state.hir_id + 1 /\ state.deref_span = state.deref_hir_id
        /\ \A k \in NewAutoDerefs :
                IF is_ref(Visited.ty)
                THEN PlacedAt(findings'[k], state.hir_id, Visited.hir_id)
                ELSE PlacedAt(findings'[k], state.deref_hir_id, Visited.hir_id)
      ]_vars

\* `&**x` in a stable position with x a reference: the finding replaces the
\* whole chain by `x`
C28_Witness ==
    /\ Len(nodes) = 4
    /\ OpensBorrow(1) /\ IsDeref(2) /\ IsDeref(3)
    /\ nodes[4].kind = "Path" /\ is_ref(nodes[4].ty)
    /\ Len(findings) = 1
    /\ PlacedAt(findings[1], 1, 4)

(***************************************************************************)
(* The borrow layers a needless-borrow finding removes.                    *)
(***************************************************************************)
\* the needless-borrow findings placed at expressions
BorrowFindings ==
    {k \in 1..Len(findings) :
        findings[k].lint = NEEDLESS_BORROW /\ findings[k].msg # pat_msg}

\* the node finding k is placed at and the node whose text replaces it
AnchorNode(k) == Anchor(findings[k])[2]
ReplacementNode(k) == Replacement(findings[k])[2]

(***************************************************************************)
(* C29: every needless-borrow finding of a chain replaces the borrow that  *)
(* opened the chain by an expression m levels below it, the m expressions  *)
(* from the anchor down to the replacement being borrows written in the    *)
(* source, each the operand of the one before (the opening borrow and the  *)
(* nested borrows consumed), and 1 <= m <= d - r + 1, where d is the       *)
(* number of implicit dereferences and r the number of required layers at  *)
(* the opening borrow: the rewrite removes no more borrow layers than the  *)
(* surplus of implicit dereferences allows.                                *)
(***************************************************************************)
C29_RemovedLayersBounded ==
    \A k \in BorrowFindings :
        LET i == AnchorNode(k)
            m == ReplacementNode(k) - i
        IN  /\ i \in 1..Len(nodes) /\ ReplacementNode(k) \in 1..Len(nodes)
            /\ \A l \in i..(i + m - 1) : IsBorrow(l)
            /\ \A l \in (i + 1)..(i + m) : nodes[l].parent.hir_id = l - 1
            /\ 1 <= m
            /\ m <= ImplicitDerefs(nodes[i]) - RequiredRefs(nodes[i]) + 1

\* `(&&&x).f` with three implicit dereferences: all three borrows are removed
C29_Witness ==
    \E k \in BorrowFindings :
        /\ AnchorNode(k) = 1 /\ ReplacementNode(k) = 4
        /\ nodes[4].kind = "Path"
        /\ ImplicitDerefs(nodes[1]) = 3 /\ RequiredRefs(nodes[1]) = 1

(***************************************************************************)
(* The life of the table of bindings.                                      *)
(***************************************************************************)
\* the table is either empty, or belongs to a body that is being traversed
TableBelongsToOpenBody ==
    ref_locals # <<>> =>
        /\ current_body # NoId
        /\ \E b \in 1..Len(bodies) : current_body = Some(bodies[b])

\* no RefPat is reported twice
FlushedAtMostOnce ==
    \A k, l \in PatFindings : findings[k].hir_id = findings[l].hir_id => k = l

\* RefPat pat is reported by one of the findings this step emits
FlushedNow(pat) ==
    \E k \in NewFindings :
        findings'[k].hir_id = Some(pat.hir_id) /\ findings'[k].msg = pat_msg

(***************************************************************************)
(* C30: in every reachable state a non-empty table implies that            *)
(* current_body is set, and it is the id of a body being traversed; the    *)
(* call of check_body_post for current_body leaves the table empty and     *)
(* current_body unset; no RefPat is reported twice; when the traversal     *)
(* completes the body recorded in current_body every entry of the table is *)
(* either reported by that call or is a tombstone, so that a body entered  *)
(* later never starts with a tracked binding, and nothing is tracked once  *)
(* every body has completed.                                               *)
(***************************************************************************)
C30_TableLifecycle ==
    [][/\ TableBelongsToOpenBody'
       /\ FlushedAtMostOnce'
       /\ CompletesTracked =>
            /\ ref_locals' = <<>> /\ current_body' = NoId
            /\ \A i \in 1..Len(ref_locals) :
                    ref_locals[i].pat.some => FlushedNow(ref_locals[i].pat)
       /\ (Enters /\ bodies = <<>>) => (ref_locals = <<>> /\ current_body = NoId)
       /\ bodies' = <<>> => (ref_locals' = <<>> /\ current_body' = NoId)
      ]_vars

\* the tracked body has completed with one binding tracked and one
\* tombstoned: one finding was reported and nothing is tracked any more
C30_Witness ==
    /\ ref_locals = <<>> /\ current_body = NoId
    /\ Cardinality(PatFindings) = 1
    /\ \E c \in 1..Len(closed) :
            /\ closed[c].current_body = Some(closed[c].body)
            /\ Len(closed[c].ref_locals) = 2
            /\ Len(Live(closed[c].ref_locals)) = 1

(***************************************************************************)
(* The unsigned counter of the chain state.                                *)
(***************************************************************************)
\* the counter of an open DerefedBorrow state is a value of its type, usize:
\* no subtraction has taken it below zero
CountIsUnsigned ==
    state.kind = "DerefedBorrow" => state.count \in Nat

\* this step is a call of check_expr that opens a DerefedBorrow state, at the
\* expression visited
OpensDerefedBorrow ==
    /\ Visits
    /\ state'.kind = "DerefedBorrow"
    /\ state'.hir_id = Visited.hir_id

\* this step is a call of check_expr that keeps the DerefedBorrow state that
\* is open, anchored where it was
KeepsDerefedBorrow ==
    /\ Visits
    /\ state.kind = "DerefedBorrow" /\ state'.kind = "DerefedBorrow"
    /\ state'.hir_id = state.hir_id

(***************************************************************************)
(* C31: the counter of the chain state never underflows.  In every         *)
(* reachable state the count of an open DerefedBorrow state is a natural   *)
(* number; a DerefedBorrow state is opened only at a borrow whose number of *)
(* implicit dereferences is at least the number of required layers, with   *)
(* the difference of the two as its count; and a call that keeps the state *)
(* open finds the count non-zero and leaves it one less.                   *)
(***************************************************************************)
C31_CountersNeverUnderflow ==
    [][/\ CountIsUnsigned /\ CountIsUnsigned'
       /\ OpensDerefedBorrow =>
            /\ ImplicitDerefs(Visited) >= RequiredRefs(Visited)
            /\ state'.count = ImplicitDerefs(Visited) - RequiredRefs(Visited)
       /\ KeepsDerefedBorrow =>
            /\ state.count # 0
            /\ state'.count = state.count - 1
      ]_vars

\* `&&&x` with one implicit dereference more than the layers required: the
\* second borrow took the count from 1 to 0, and the third borrow, met with a
\* count of 0, was not counted but finalized the chain
C31_Witness ==
    /\ Len(nodes) = 3
    /\ IsBorrow(1) /\ IsBorrow(2) /\ IsBorrow(3)
    /\ nodes[2].parent.hir_id = 1 /\ nodes[3].parent.hir_id = 2
    /\ ImplicitDerefs(nodes[1]) = RequiredRefs(nodes[1]) + 1
    /\ state = NoState
    /\ \E k \in BorrowFindings : AnchorNode(k) = 1 /\ ReplacementNode(k) = 3

====
